---- MODULE Spec2Model ----
(***************************************************************************)
(* Model of skills/granola/scripts/granola.ts: the local meeting-cache     *)
(* reader.  One run of the script is a single pass                         *)
(*   parse argv -> loadCache (read, unwrap, parseCacheData) -> one query   *)
(* and the pure functions of the script are operators.                     *)
(*                                                                         *)
(* Conventions.  A JavaScript string is a sequence of one-character        *)
(* strings.  A JSON value that the code only tests with                    *)
(* `typeof v === "string"` is a Field: [isStr, s].  A JavaScript object    *)
(* used as a map (Record<string, T>) is the sequence of its own entries in *)
(* Object.entries order; record keys are ordinary (non array-index)        *)
(* strings, so that order is insertion order.  A Date is an integer.       *)
(***************************************************************************)
EXTENDS Integers, Sequences, FiniteSets, TLC

VARIABLES
    pc,          \* position of the run inside main()
    argv,        \* shape of the command line: "ok", "help", "unexpected", "missing"
    command,     \* normalized command name
    args,        \* argsMap plus the two boolean flags
    file,        \* the cache file on disk
    now,         \* the clock value read by `new Date()` during this run
    localTz,     \* the local UTC offset of the process, in minutes
    data,        \* the CacheData built by loadCache
    computed,    \* which query function has been evaluated ("none" before)
    out,         \* the result written to stdout
    exit,        \* "running", "ok" (normal return), "err1" (catch), "usage0", "usage2"
    error        \* message class of the thrown Error, "none" if nothing thrown

vars == <<pc, argv, command, args, file, now, localTz, data, computed, out, exit, error>>

----------------------------------------------------------------------------
(* JavaScript strings *)

Lower(c) ==
    CASE c = "A" -> "a" [] c = "B" -> "b" [] c = "C" -> "c" [] c = "D" -> "d"
      [] c = "E" -> "e" [] c = "F" -> "f" [] c = "G" -> "g" [] c = "H" -> "h"
      [] c = "I" -> "i" [] c = "J" -> "j" [] c = "K" -> "k" [] c = "L" -> "l"
      [] c = "M" -> "m" [] c = "N" -> "n" [] c = "O" -> "o" [] c = "P" -> "p"
      [] c = "Q" -> "q" [] c = "R" -> "r" [] c = "S" -> "s" [] c = "T" -> "t"
      [] c = "U" -> "u" [] c = "V" -> "v" [] c = "W" -> "w" [] c = "X" -> "x"
      [] c = "Y" -> "y" [] c = "Z" -> "z"
      [] OTHER -> c

toLowerCase(s) == [i \in 1..Len(s) |-> Lower(s[i])]

IsSpace(c) == c \in {" ", "\n"}

RECURSIVE trimStart(_)
trimStart(s) ==
    IF s # <<>> /\ IsSpace(Head(s)) THEN trimStart(Tail(s)) ELSE s

RECURSIVE trimEnd(_)
trimEnd(s) ==
    IF s # <<>> /\ IsSpace(s[Len(s)]) THEN trimEnd(SubSeq(s, 1, Len(s) - 1)) ELSE s

trim(s) == trimEnd(trimStart(s))

includes(s, q) ==
    \E i \in 1..(Len(s) - Len(q) + 1) : SubSeq(s, i, i + Len(q) - 1) = q

RECURSIVE join(_, _)
join(parts, sep) ==
    IF parts = <<>> THEN <<>>
    ELSE IF Len(parts) = 1 THEN parts[1]
    ELSE parts[1] \o sep \o join(Tail(parts), sep)

Truthy(s) == s # <<>>

----------------------------------------------------------------------------
(* JSON values as the code inspects them *)

StrV(s) == [isStr |-> TRUE, s |-> s]
NonStr == [isStr |-> FALSE, s |-> <<>>]

\* `typeof f === "string" && f.trim()`
NonBlank(f) == f.isStr /\ Truthy(trim(f.s))

\* Names every plain object inherits from Object.prototype: `obj[k]` is truthy
\* for them although obj has no own entry k.
ObjectPrototypeKeys == {"constructor", "toString"}

HasOwn(map, key) == \E i \in DOMAIN map : map[i].id = key

Own(map, key) == map[CHOOSE i \in DOMAIN map : map[i].id = key]

\* `map[key]` converted to a boolean, as in `if (!map[key])`.
Lookup(map, key) ==
    IF HasOwn(map, key) THEN "own"
    ELSE IF key \in ObjectPrototypeKeys THEN "inherited"
    ELSE "undefined"

\* `map[key] = v`
ObjSet(map, key, v) ==
    IF HasOwn(map, key)
    THEN [i \in DOMAIN map |-> IF map[i].id = key THEN [id |-> key, v |-> v] ELSE map[i]]
    ELSE Append(map, [id |-> key, v |-> v])

----------------------------------------------------------------------------
(* Dates: `new Date(string)` and the UTC getters.  A Date is its time value *)
(* in minutes since 1970-01-01T00:00Z.                                      *)

DigitVal(c) ==
    CASE c = "0" -> 0 [] c = "1" -> 1 [] c = "2" -> 2 [] c = "3" -> 3
      [] c = "4" -> 4 [] c = "5" -> 5 [] c = "6" -> 6 [] c = "7" -> 7
      [] c = "8" -> 8 [] c = "9" -> 9 [] OTHER -> -1

IsDigit(c) == DigitVal(c) >= 0

AllDigits(s, i, n) == i + n - 1 <= Len(s) /\ \A k \in i..(i + n - 1) : IsDigit(s[k])

RECURSIVE Num(_, _, _)
Num(s, i, n) ==
    IF n = 0 THEN 0 ELSE Num(s, i, n - 1) * 10 + DigitVal(s[i + n - 1])

\* Days from 1970-01-01 to the civil date y-m-d (day overflow rolls over, as MakeDay does).
DaysFromCivil(y, m, d) ==
    LET yy  == IF m <= 2 THEN y - 1 ELSE y
        era == yy \div 400
        yoe == yy - era * 400
        mp  == IF m > 2 THEN m - 3 ELSE m + 9
        doy == (153 * mp + 2) \div 5 + d - 1
        doe == yoe * 365 + yoe \div 4 - yoe \div 100 + doy
    IN  era * 146097 + doe - 719468

\* <<year, month>> (month 1..12) of a day number.
CivilFromDays(z0) ==
    LET z   == z0 + 719468
        era == z \div 146097
        doe == z - era * 146097
        yoe == (doe - doe \div 1460 + doe \div 36524 - doe \div 146096) \div 365
        doy == doe - (365 * yoe + yoe \div 4 - yoe \div 100)
        mp  == (5 * doy + 2) \div 153
        m   == IF mp < 10 THEN mp + 3 ELSE mp - 9
    IN  <<IF m <= 2 THEN yoe + era * 400 + 1 ELSE yoe + era * 400, m>>

InvalidDate == [valid |-> FALSE, t |-> 0]

\* The offset suffix of an ISO date-time: "" (local time), "Z", "+HH:MM", "-HH:MM".
\* Gives the minutes to subtract to reach UTC, or "bad".
OffsetOf(s, i, tz) ==
    IF i > Len(s) THEN [ok |-> TRUE, off |-> tz]
    ELSE IF Len(s) = i /\ s[i] = "Z" THEN [ok |-> TRUE, off |-> 0]
    ELSE IF /\ Len(s) = i + 5
            /\ s[i] \in {"+", "-"}
            /\ AllDigits(s, i + 1, 2) /\ s[i + 3] = ":" /\ AllDigits(s, i + 4, 2)
            /\ Num(s, i + 1, 2) <= 23 /\ Num(s, i + 4, 2) <= 59
         THEN LET m == Num(s, i + 1, 2) * 60 + Num(s, i + 4, 2)
              IN  [ok |-> TRUE, off |-> IF s[i] = "+" THEN m ELSE 0 - m]
    ELSE [ok |-> FALSE, off |-> 0]

\* new Date(s) for the ISO forms YYYY-MM-DD and YYYY-MM-DDTHH:MM[offset]; every
\* other text is an Invalid Date.  tz is the local UTC offset in minutes, used
\* only for a date-time that carries no offset.
NewDate(s, tz) ==
    IF ~ ( /\ Len(s) >= 10
           /\ AllDigits(s, 1, 4) /\ s[5] = "-" /\ AllDigits(s, 6, 2)
           /\ s[8] = "-" /\ AllDigits(s, 9, 2) )
    THEN InvalidDate
    ELSE LET y == Num(s, 1, 4)
             m == Num(s, 6, 2)
             d == Num(s, 9, 2)
             day == DaysFromCivil(y, m, d)
         IN  IF ~ (m \in 1..12 /\ d \in 1..31) THEN InvalidDate
             ELSE IF Len(s) = 10 THEN [valid |-> TRUE, t |-> day * 1440]
             ELSE IF ~ ( /\ Len(s) >= 16 /\ s[11] = "T"
                         /\ AllDigits(s, 12, 2) /\ s[14] = ":" /\ AllDigits(s, 15, 2)
                         /\ Num(s, 12, 2) <= 23 /\ Num(s, 15, 2) <= 59
                         /\ OffsetOf(s, 17, tz).ok )
             THEN InvalidDate
             ELSE [valid |-> TRUE,
                   t |-> day * 1440 + Num(s, 12, 2) * 60 + Num(s, 15, 2)
                         - OffsetOf(s, 17, tz).off]

\* Local UTC offsets (minutes east) the process may run under.
TzOffsets == {0, 60}

\* parseIsoDate / parseRangeDate: both throw exactly when the Date is invalid.
parseIsoDate(value, tz) == NewDate(value, tz)

parseRangeDate(value, tz) == NewDate(value, tz)

\* value.replace(/Z$/, "+00:00")
ReplaceTrailingZ(s) ==
    IF s # <<>> /\ s[Len(s)] = "Z"
    THEN SubSeq(s, 1, Len(s) - 1) \o <<"+", "0", "0", ":", "0", "0">>
    ELSE s

getUTCFullYear(t) == CivilFromDays(t \div 1440)[1]

getUTCMonth(t) == CivilFromDays(t \div 1440)[2] - 1

----------------------------------------------------------------------------
(* Rich-text flatteners *)

\* A rich-text node: isObj (a non-null object), type, text, and `content`, which
\* is absent ("undef"), an array of nodes, a single node ("object") or another value.
Node(type, text, ckind, content) ==
    [isObj |-> TRUE, type |-> type, text |-> text, ckind |-> ckind, content |-> content]

NotANode == [isObj |-> FALSE, type |-> "", text |-> NonStr, ckind |-> "undef", content |-> <<>>]

TextNode(s) == Node("text", StrV(s), "undef", <<>>)

Sp == <<" ">>

RECURSIVE extract(_)
extract(items) ==
    IF items = <<>> THEN <<>>
    ELSE LET entry == Head(items)
             rest == extract(Tail(items))
         IN  IF ~ entry.isObj THEN rest
             ELSE IF entry.type = "paragraph" /\ entry.ckind = "array"
                  THEN <<join(extract(entry.content), Sp)>> \o rest
             ELSE IF entry.type = "text" /\ entry.text.isStr
                  THEN <<entry.text.s>> \o rest
             ELSE IF entry.ckind = "array"
                  THEN <<join(extract(entry.content), Sp)>> \o rest
             ELSE rest

extractStructuredNotes(notesData) ==
    IF ~ notesData.isObj THEN <<>>
    ELSE IF notesData.ckind # "array" THEN <<>>
    ELSE trim(join(extract(notesData.content), Sp))

\* Character codes of the key alphabet, for Array.prototype.sort's default order.
CharCode(c) ==
    CASE c = "0" -> 48 [] c = "1" -> 49 [] c = "2" -> 50 [] c = "3" -> 51
      [] c = "A" -> 65 [] c = "B" -> 66 [] c = "a" -> 97 [] c = "b" -> 98
      [] c = "p" -> 112 [] OTHER -> 127

RECURSIVE StrLess(_, _)
StrLess(a, b) ==
    IF b = <<>> THEN FALSE
    ELSE IF a = <<>> THEN TRUE
    ELSE IF CharCode(Head(a)) # CharCode(Head(b)) THEN CharCode(Head(a)) < CharCode(Head(b))
    ELSE StrLess(Tail(a), Tail(b))

\* Insert an entry into a sequence of entries sorted by key (stable).
RECURSIVE InsertByKey(_, _)
InsertByKey(sorted, e) ==
    IF sorted = <<>> THEN <<e>>
    ELSE IF StrLess(e.id, Head(sorted).id) THEN <<e>> \o sorted
    ELSE <<Head(sorted)>> \o InsertByKey(Tail(sorted), e)

RECURSIVE SortByKey(_)
SortByKey(entries) ==
    IF entries = <<>> THEN <<>>
    ELSE InsertByKey(SortByKey(SubSeq(entries, 1, Len(entries) - 1)), entries[Len(entries)])

RECURSIVE walk(_)
RECURSIVE walkAll(_)
walk(node) ==
    IF ~ node.isObj THEN <<>>
    ELSE (IF node.type = "text" /\ NonBlank(node.text) THEN <<trim(node.text.s)>> ELSE <<>>)
         \o (CASE node.ckind = "array" -> walkAll(node.content)
               [] node.ckind = "object" -> walk(node.content[1])
               [] OTHER -> <<>>)

walkAll(nodes) ==
    IF nodes = <<>> THEN <<>> ELSE walk(Head(nodes)) \o walkAll(Tail(nodes))

\* walk((panel as Record).content) for each panel of a map, in the given order
RECURSIVE walkPanelContents(_)
walkPanelContents(entries) ==
    IF entries = <<>> THEN <<>>
    ELSE LET panel == Head(entries).v
         IN  (IF panel.isObj
              THEN CASE panel.ckind = "array" -> walkAll(panel.content)
                     [] panel.ckind = "object" -> walk(panel.content[1])
                     [] OTHER -> <<>>
              ELSE <<>>)
             \o walkPanelContents(Tail(entries))

Para == <<"\n", "\n">>

NoPanels == [kind |-> "undef", items |-> <<>>]

\* faulty variant: the panels of a map are visited in the order of the raw map
extractDocumentPanelContentUnsorted(panelData) ==
    LET textParts ==
            CASE panelData.kind = "array" ->
                    walkAll([i \in DOMAIN panelData.items |-> panelData.items[i].v])
              [] panelData.kind = "map" ->
                    walkPanelContents(panelData.items)
              [] OTHER -> <<>>
    IN  trim(join(textParts, Para))

\* panelData is absent ("undef"), an array of panels or a map key -> panel;
\* items are [id |-> key, v |-> panel] (the key is unused for an array).
extractDocumentPanelContent(panelData) ==
    LET textParts ==
            CASE panelData.kind = "array" ->
                    walkAll([i \in DOMAIN panelData.items |-> panelData.items[i].v])
              [] panelData.kind = "map" ->
                    walkPanelContents(SortByKey(panelData.items))
              [] OTHER -> <<>>
    IN  trim(join(textParts, Para))

----------------------------------------------------------------------------
(* parseCacheData *)

\* people.map(name or "").filter(name.trim().length > 0)
RECURSIVE participantsOf(_)
participantsOf(people) ==
    IF people = <<>> THEN <<>>
    ELSE LET person == Head(people)
             name == IF person.isObj /\ person.name.isStr THEN person.name.s ELSE <<>>
         IN  (IF Len(trim(name)) > 0 THEN <<name>> ELSE <<>>) \o participantsOf(Tail(people))

UntitledMeeting == <<"U", "n", "t", "i", "t", "l", "e", "d", " ", "M", "e", "e", "t", "i", "n", "g">>

\* faulty variant: created_at is never read, every Meeting is dated at load time
meetingDateOfIgnoringCreatedAt(meetingData, clock, tz) == clock

meetingDateOf(meetingData, clock, tz) ==
    IF NonBlank(meetingData.created_at)
    THEN LET parsed == parseIsoDate(ReplaceTrailingZ(meetingData.created_at.s), tz)
         IN  IF parsed.valid THEN parsed.t ELSE clock
    ELSE clock

\* faulty variant: a title that is a string is kept even when it is blank
buildMeetingKeepingBlankTitle(meetingId, meetingData, clock, tz) ==
    [ id |-> meetingId,
      title |-> IF meetingData.title.isStr THEN meetingData.title.s ELSE UntitledMeeting,
      date |-> meetingDateOf(meetingData, clock, tz),
      participants |-> participantsOf(IF meetingData.peopleIsArray THEN meetingData.people ELSE <<>>),
      meetingType |-> IF meetingData.type.isStr THEN meetingData.type.s ELSE <<"m", "e", "e", "t", "i", "n", "g">> ]

buildMeeting(meetingId, meetingData, clock, tz) ==
    [ id |-> meetingId,
      title |-> IF NonBlank(meetingData.title) THEN meetingData.title.s ELSE UntitledMeeting,
      date |-> meetingDateOf(meetingData, clock, tz),
      participants |-> participantsOf(IF meetingData.peopleIsArray THEN meetingData.people ELSE <<>>),
      meetingType |-> IF meetingData.type.isStr THEN meetingData.type.s ELSE <<"m", "e", "e", "t", "i", "n", "g">> ]

\* faulty variant: a record whose created_at is given but does not parse is skipped
RECURSIVE meetingsPassSkippingBadDates(_, _, _, _)
meetingsPassSkippingBadDates(rawDocuments, meetings, clock, tz) ==
    IF rawDocuments = <<>> THEN meetings
    ELSE LET e == Head(rawDocuments)
             bad == /\ NonBlank(e.v.created_at)
                    /\ ~ parseIsoDate(ReplaceTrailingZ(e.v.created_at.s), tz).valid
         IN  meetingsPassSkippingBadDates(Tail(rawDocuments),
                 IF ~ e.v.isObj \/ bad THEN meetings
                 ELSE ObjSet(meetings, e.id, buildMeeting(e.id, e.v, clock, tz)),
                 clock, tz)

\* first loop: one Meeting per object-valued entry of rawData.documents
RECURSIVE meetingsPass(_, _, _, _)
meetingsPass(rawDocuments, meetings, clock, tz) ==
    IF rawDocuments = <<>> THEN meetings
    ELSE LET e == Head(rawDocuments)
         IN  meetingsPass(Tail(rawDocuments),
                 IF ~ e.v.isObj THEN meetings
                 ELSE ObjSet(meetings, e.id, buildMeeting(e.id, e.v, clock, tz)),
                 clock, tz)

\* new Set(): add keeps the first occurrence
SetAdd(seq, x) == IF \E i \in DOMAIN seq : seq[i] = x THEN seq ELSE Append(seq, x)

RECURSIVE segmentTexts(_)
segmentTexts(segs) ==
    IF segs = <<>> THEN <<>>
    ELSE LET seg == Head(segs)
         IN  (IF seg.isObj /\ NonBlank(seg.text) THEN <<trim(seg.text.s)>> ELSE <<>>)
             \o segmentTexts(Tail(segs))

RECURSIVE segmentSpeakers(_, _)
segmentSpeakers(segs, speakers) ==
    IF segs = <<>> THEN speakers
    ELSE LET seg == Head(segs)
         IN  segmentSpeakers(Tail(segs),
                 IF seg.isObj /\ NonBlank(seg.source)
                 THEN SetAdd(speakers, trim(seg.source.s)) ELSE speakers)

RECURSIVE listedSpeakers(_, _)
listedSpeakers(list, speakers) ==
    IF list = <<>> THEN speakers
    ELSE listedSpeakers(Tail(list),
             IF NonBlank(Head(list)) THEN SetAdd(speakers, trim(Head(list).s)) ELSE speakers)

\* faulty variant: the three fields are tried in the order transcript, text, content
contentCandidateLastFieldFirst(transcriptData) ==
    IF NonBlank(transcriptData.transcript) THEN <<transcriptData.transcript.s>>
    ELSE IF NonBlank(transcriptData.text) THEN <<transcriptData.text.s>>
    ELSE IF NonBlank(transcriptData.content) THEN <<transcriptData.content.s>>
    ELSE <<>>

\* ["content", "text", "transcript"].map(k => data[k]).find(non-blank string)
contentCandidate(transcriptData) ==
    IF NonBlank(transcriptData.content) THEN <<transcriptData.content.s>>
    ELSE IF NonBlank(transcriptData.text) THEN <<transcriptData.text.s>>
    ELSE IF NonBlank(transcriptData.transcript) THEN <<transcriptData.transcript.s>>
    ELSE <<>>

transcriptContentParts(transcriptRaw) ==
    CASE transcriptRaw.form = "array" -> segmentTexts(transcriptRaw.segs)
      [] transcriptRaw.form = "object" -> contentCandidate(transcriptRaw)
      [] OTHER -> <<>>

transcriptSpeakers(transcriptRaw) ==
    CASE transcriptRaw.form = "array" -> segmentSpeakers(transcriptRaw.segs, <<>>)
      [] transcriptRaw.form = "object" ->
            IF transcriptRaw.speakersIsArray
            THEN listedSpeakers(transcriptRaw.speakers, <<>>) ELSE <<>>
      [] OTHER -> <<>>

\* faulty variant: an entry that carries speakers is stored even without content
RECURSIVE transcriptsPassKeepingSpeakers(_, _)
transcriptsPassKeepingSpeakers(rawTranscripts, transcripts) ==
    IF rawTranscripts = <<>> THEN transcripts
    ELSE LET e == Head(rawTranscripts)
             contentParts == transcriptContentParts(e.v)
         IN  transcriptsPassKeepingSpeakers(Tail(rawTranscripts),
                 IF Len(contentParts) > 0 \/ Len(transcriptSpeakers(e.v)) > 0
                 THEN ObjSet(transcripts, e.id,
                          [ meetingId |-> e.id,
                            content |-> trim(join(contentParts, Sp)),
                            speakers |-> transcriptSpeakers(e.v) ])
                 ELSE transcripts)

\* second loop: one Transcript per raw entry that yielded a content part
RECURSIVE transcriptsPass(_, _)
transcriptsPass(rawTranscripts, transcripts) ==
    IF rawTranscripts = <<>> THEN transcripts
    ELSE LET e == Head(rawTranscripts)
             contentParts == transcriptContentParts(e.v)
         IN  transcriptsPass(Tail(rawTranscripts),
                 IF Len(contentParts) > 0
                 THEN ObjSet(transcripts, e.id,
                          [ meetingId |-> e.id,
                            content |-> trim(join(contentParts, Sp)),
                            speakers |-> transcriptSpeakers(e.v) ])
                 ELSE transcripts)

\* documentPanels[docId]
panelsFor(documentPanels, docId) ==
    IF HasOwn(documentPanels, docId) THEN Own(documentPanels, docId).v ELSE NoPanels

OverviewLabel == <<"O", "v", "e", "r", "v", "i", "e", "w", ":", " ">>
SummaryLabel == <<"S", "u", "m", "m", "a", "r", "y", ":", " ">>

\* faulty variant: notes_markdown is tried before notes_plain
notesPartsMarkdownFirst(docData) ==
    IF NonBlank(docData.notes_markdown) THEN <<docData.notes_markdown.s>>
    ELSE IF NonBlank(docData.notes_plain) THEN <<docData.notes_plain.s>>
    ELSE IF docData.notes.isObj
         THEN LET structured == extractStructuredNotes(docData.notes)
              IN  IF Truthy(structured) THEN <<structured>> ELSE <<>>
    ELSE <<>>

\* the notes body: notes_plain, else notes_markdown, else structured notes
notesParts(docData) ==
    IF NonBlank(docData.notes_plain) THEN <<docData.notes_plain.s>>
    ELSE IF NonBlank(docData.notes_markdown) THEN <<docData.notes_markdown.s>>
    ELSE IF docData.notes.isObj
         THEN LET structured == extractStructuredNotes(docData.notes)
              IN  IF Truthy(structured) THEN <<structured>> ELSE <<>>
    ELSE <<>>

\* faulty variant: the Summary part is pushed before the Overview part
appendSummaryOverview(docData, parts) ==
    LET withSummary == IF NonBlank(docData.summary)
                       THEN Append(parts, SummaryLabel \o docData.summary.s)
                       ELSE parts
    IN  IF NonBlank(docData.overview)
        THEN Append(withSummary, OverviewLabel \o docData.overview.s)
        ELSE withSummary

\* the "Overview: ..." and "Summary: ..." parts pushed after the body
appendOverviewSummary(docData, parts) ==
    LET withOverview == IF NonBlank(docData.overview)
                        THEN Append(parts, OverviewLabel \o docData.overview.s)
                        ELSE parts
    IN  IF NonBlank(docData.summary)
        THEN Append(withOverview, SummaryLabel \o docData.summary.s)
        ELSE withOverview

\* faulty variant: panel text is pushed even when the notes gave a body
documentContentPartsStackingPanels(docData, panelData, parsePanels) ==
    LET base == notesParts(docData)
        panelText == extractDocumentPanelContent(panelData)
    IN  appendOverviewSummary(docData,
            IF parsePanels /\ Truthy(panelText) THEN Append(base, panelText) ELSE base)

\* faulty variant: the panel fallback runs whether or not panels are enabled
documentContentPartsAlwaysPanels(docData, panelData, parsePanels) ==
    LET base == notesParts(docData)
        hasContent == \E i \in DOMAIN base : Len(trim(base[i])) > 0
        panelText == extractDocumentPanelContent(panelData)
    IN  appendOverviewSummary(docData,
            IF ~ hasContent /\ Truthy(panelText) THEN Append(base, panelText) ELSE base)

documentContentParts(docData, panelData, parsePanels) ==
    LET base == notesParts(docData)
        hasContent == \E i \in DOMAIN base : Len(trim(base[i])) > 0
        panelText == extractDocumentPanelContent(panelData)
    IN  appendOverviewSummary(docData,
            IF parsePanels /\ ~ hasContent /\ Truthy(panelText)
            THEN Append(base, panelText) ELSE base)

MeetingNotes == <<"m", "e", "e", "t", "i", "n", "g", "_", "n", "o", "t", "e", "s">>

\* faulty variant: a Document is stored for every raw entry, Meeting or not
RECURSIVE documentsPassUnguarded(_, _, _, _, _)
documentsPassUnguarded(rawDocuments, documentPanels, parsePanels, meetings, documents) ==
    IF rawDocuments = <<>> THEN documents
    ELSE LET e == Head(rawDocuments)
             contentParts == documentContentParts(e.v, panelsFor(documentPanels, e.id), parsePanels)
             known == Lookup(meetings, e.id) = "own"
         IN  documentsPassUnguarded(Tail(rawDocuments), documentPanels, parsePanels, meetings,
                 ObjSet(documents, e.id,
                     [ id |-> e.id,
                       meetingId |-> e.id,
                       title |-> IF known THEN Own(meetings, e.id).v.title ELSE UntitledMeeting,
                       content |-> trim(join(contentParts, Para)),
                       documentType |-> MeetingNotes,
                       createdAt |-> IF known THEN Own(meetings, e.id).v.date ELSE 0,
                       tags |-> <<>> ]))

\* faulty variant: a record whose content comes out empty gets no Document
RECURSIVE documentsPassSkippingEmpty(_, _, _, _, _)
documentsPassSkippingEmpty(rawDocuments, documentPanels, parsePanels, meetings, documents) ==
    IF rawDocuments = <<>> THEN documents
    ELSE LET e == Head(rawDocuments)
             contentParts == documentContentParts(e.v, panelsFor(documentPanels, e.id), parsePanels)
             next ==
                IF ~ e.v.isObj THEN documents
                ELSE IF Lookup(meetings, e.id) = "undefined" THEN documents
                ELSE IF trim(join(contentParts, Para)) = <<>> THEN documents
                ELSE LET meeting == Own(meetings, e.id).v
                     IN  ObjSet(documents, e.id,
                             [ id |-> e.id,
                               meetingId |-> e.id,
                               title |-> meeting.title,
                               content |-> trim(join(contentParts, Para)),
                               documentType |-> MeetingNotes,
                               createdAt |-> meeting.date,
                               tags |-> <<>> ])
         IN  documentsPassSkippingEmpty(Tail(rawDocuments), documentPanels, parsePanels,
                                        meetings, next)

\* third loop: one Document per object-valued raw entry whose Meeting exists
RECURSIVE documentsPass(_, _, _, _, _)
documentsPass(rawDocuments, documentPanels, parsePanels, meetings, documents) ==
    IF rawDocuments = <<>> THEN documents
    ELSE LET e == Head(rawDocuments)
             contentParts == documentContentParts(e.v, panelsFor(documentPanels, e.id), parsePanels)
             next ==
                IF ~ e.v.isObj THEN documents
                ELSE IF Lookup(meetings, e.id) = "undefined" THEN documents
                ELSE LET meeting == Own(meetings, e.id).v
                     IN  ObjSet(documents, e.id,
                             [ id |-> e.id,
                               meetingId |-> e.id,
                               title |-> meeting.title,
                               content |-> trim(join(contentParts, Para)),
                               documentType |-> MeetingNotes,
                               createdAt |-> meeting.date,
                               tags |-> <<>> ])
         IN  documentsPass(Tail(rawDocuments), documentPanels, parsePanels, meetings, next)

EmptyCache(clock) ==
    [meetings |-> <<>>, documents |-> <<>>, transcripts |-> <<>>, lastUpdated |-> clock]

\* rawData is [documents, transcripts, documentPanels], each a map (a field that
\* is missing or no object is the empty map).
parseCacheData(rawData, parsePanels, clock, tz) ==
    LET meetings == meetingsPass(rawData.documents, <<>>, clock, tz)
    IN  [ meetings |-> meetings,
          transcripts |-> transcriptsPass(rawData.transcripts, <<>>),
          documents |-> documentsPass(rawData.documents, rawData.documentPanels,
                                      parsePanels, meetings, <<>>),
          lastUpdated |-> clock ]

----------------------------------------------------------------------------
(* loadCache *)

EmptyRaw == [documents |-> <<>>, transcripts |-> <<>>, documentPanels |-> <<>>]

\* The cache file.  exists: existsSync.  outer: whether JSON.parse(rawFile)
\* succeeds.  top: the top-level object read as raw data.  cache: the top-level
\* `cache` field: "absent" (missing or no string), "bad" (a string that is not
\* JSON) or "json"; nested: that string parsed; stateIsObj/state: its `state`.
CacheFile(exists, outer, top, cache, nested, stateIsObj, state) ==
    [ exists |-> exists, outer |-> outer, top |-> top, cache |-> cache,
      nested |-> nested, stateIsObj |-> stateIsObj, state |-> state ]

MissingFile == CacheFile(FALSE, "bad", EmptyRaw, "absent", EmptyRaw, FALSE, EmptyRaw)

\* faulty variant: a cache that does not parse is treated like a missing one
loadCacheSwallowingParseErrors(f, parsePanels, clock, tz) ==
    IF ~ f.exists \/ f.outer = "bad" \/ f.cache = "bad"
    THEN [threw |-> FALSE, data |-> EmptyCache(clock)]
    ELSE IF f.cache = "absent"
         THEN [threw |-> FALSE, data |-> parseCacheData(f.top, parsePanels, clock, tz)]
    ELSE [ threw |-> FALSE,
           data |-> parseCacheData(IF f.stateIsObj THEN f.state ELSE f.nested,
                                   parsePanels, clock, tz) ]

\* faulty variant: the `state` field of the re-parsed object is never looked at
loadCacheIgnoringState(f, parsePanels, clock, tz) ==
    IF ~ f.exists THEN [threw |-> FALSE, data |-> EmptyCache(clock)]
    ELSE IF f.outer = "bad" THEN [threw |-> TRUE, data |-> EmptyCache(clock)]
    ELSE IF f.cache = "absent"
         THEN [threw |-> FALSE, data |-> parseCacheData(f.top, parsePanels, clock, tz)]
    ELSE IF f.cache = "bad" THEN [threw |-> TRUE, data |-> EmptyCache(clock)]
    ELSE [threw |-> FALSE, data |-> parseCacheData(f.nested, parsePanels, clock, tz)]

\* [threw, data]: threw is the SyntaxError of either JSON.parse
loadCache(f, parsePanels, clock, tz) ==
    IF ~ f.exists THEN [threw |-> FALSE, data |-> EmptyCache(clock)]
    ELSE IF f.outer = "bad" THEN [threw |-> TRUE, data |-> EmptyCache(clock)]
    ELSE IF f.cache = "absent"
         THEN [threw |-> FALSE, data |-> parseCacheData(f.top, parsePanels, clock, tz)]
    ELSE IF f.cache = "bad" THEN [threw |-> TRUE, data |-> EmptyCache(clock)]
    ELSE [ threw |-> FALSE,
           data |-> parseCacheData(IF f.stateIsObj THEN f.state ELSE f.nested,
                                   parsePanels, clock, tz) ]

----------------------------------------------------------------------------
(* Numbers: Number(string) for decimal literals *)

NaN == [nan |-> TRUE, neg |-> FALSE, int |-> 0, frac |-> FALSE]

IntNumber(n) == [nan |-> FALSE, neg |-> n < 0, int |-> IF n < 0 THEN 0 - n ELSE n, frac |-> FALSE]

\* Number(s) for s of the form [+-]digits[.digits]; any other text is NaN.
\* The value is (neg ? -1 : 1) * (int + fraction), frac telling whether the
\* fraction is non-zero.
Number(s) ==
    LET signed == s # <<>> /\ s[1] \in {"+", "-"}
        body == IF signed THEN Tail(s) ELSE s
        dots == {i \in DOMAIN body : body[i] = "."}
        ip == IF dots = {} THEN body ELSE SubSeq(body, 1, (CHOOSE i \in dots : TRUE) - 1)
        fp == IF dots = {} THEN <<>> ELSE SubSeq(body, (CHOOSE i \in dots : TRUE) + 1, Len(body))
    IN  IF \/ Cardinality(dots) > 1
           \/ Len(ip) + Len(fp) = 0
           \/ ~ AllDigits(ip, 1, Len(ip))
           \/ ~ AllDigits(fp, 1, Len(fp))
        THEN NaN
        ELSE [ nan |-> FALSE,
               neg |-> signed /\ s[1] = "-",
               int |-> Num(ip, 1, Len(ip)),
               frac |-> \E i \in DOMAIN fp : fp[i] # "0" ]

\* limit <= 0
NotPositive(n) == ~ n.nan /\ (n.neg \/ (n.int = 0 /\ ~ n.frac))

\* ToIntegerOrInfinity(Math.max(0, n)) as Array.prototype.slice applies it
SliceEnd(n) == IF n.nan \/ n.neg THEN 0 ELSE n.int

----------------------------------------------------------------------------
(* searchMeetings *)

RECURSIVE participantMatches(_, _)
participantMatches(participants, queryLower) ==
    IF participants = <<>> THEN 0
    ELSE (IF includes(toLowerCase(Head(participants)), queryLower) THEN 1 ELSE 0)
         + participantMatches(Tail(participants), queryLower)

\* faulty variant: the meeting's Document content is scored as well
scoreOfCountingDocuments(cacheData, meeting, meetingId, queryLower) ==
    (IF includes(toLowerCase(meeting.title), queryLower) THEN 2 ELSE 0)
    + participantMatches(meeting.participants, queryLower)
    + (IF /\ Lookup(cacheData.transcripts, meetingId) = "own"
          /\ includes(toLowerCase(Own(cacheData.transcripts, meetingId).v.content), queryLower)
       THEN 1 ELSE 0)
    + (IF /\ Lookup(cacheData.documents, meetingId) = "own"
          /\ includes(toLowerCase(Own(cacheData.documents, meetingId).v.content), queryLower)
       THEN 1 ELSE 0)

scoreOf(cacheData, meeting, meetingId, queryLower) ==
    (IF includes(toLowerCase(meeting.title), queryLower) THEN 2 ELSE 0)
    + participantMatches(meeting.participants, queryLower)
    + (IF /\ Lookup(cacheData.transcripts, meetingId) = "own"
          /\ includes(toLowerCase(Own(cacheData.transcripts, meetingId).v.content), queryLower)
       THEN 1 ELSE 0)

RECURSIVE scoreAll(_, _, _)
scoreAll(cacheData, entries, queryLower) ==
    IF entries = <<>> THEN <<>>
    ELSE LET e == Head(entries)
             score == scoreOf(cacheData, e.v, e.id, queryLower)
         IN  (IF score > 0 THEN <<[score |-> score, meeting |-> e.v]>> ELSE <<>>)
             \o scoreAll(cacheData, Tail(entries), queryLower)

\* Array.prototype.sort((a, b) => b.score - a.score): stable, descending
\* faulty variant: an entry is placed before the entries of equal score (unstable sort)
RECURSIVE insertByScoreUnstable(_, _)
insertByScoreUnstable(sorted, e) ==
    IF sorted = <<>> THEN <<e>>
    ELSE IF e.score >= Head(sorted).score THEN <<e>> \o sorted
    ELSE <<Head(sorted)>> \o insertByScoreUnstable(Tail(sorted), e)

RECURSIVE insertByScore(_, _)
insertByScore(sorted, e) ==
    IF sorted = <<>> THEN <<e>>
    ELSE IF e.score > Head(sorted).score THEN <<e>> \o sorted
    ELSE <<Head(sorted)>> \o insertByScore(Tail(sorted), e)

RECURSIVE sortByScore(_)
sortByScore(scored) ==
    IF scored = <<>> THEN <<>>
    ELSE insertByScore(sortByScore(SubSeq(scored, 1, Len(scored) - 1)), scored[Len(scored)])

Min(a, b) == IF a < b THEN a ELSE b

searchMeetings(cacheData, query, limit) ==
    LET scored == sortByScore(scoreAll(cacheData, cacheData.meetings, toLowerCase(query)))
    IN  SubSeq(scored, 1, Min(Len(scored), SliceEnd(limit)))

----------------------------------------------------------------------------
(* analyze-meeting-patterns *)

DefaultStart == <<"1", "9", "0", "0", "-", "0", "1", "-", "0", "1">>
DefaultEnd == <<"2", "1", "0", "0", "-", "0", "1", "-", "0", "1">>

\* startDateRaw / endDateRaw are Fields (absent = not supplied).
\* [threw, none, start, end]: none is the `null` range, threw the Error of parseRangeDate.
parseDateRange(startDateRaw, endDateRaw, tz) ==
    IF ~ startDateRaw.isStr /\ ~ endDateRaw.isStr
    THEN [threw |-> FALSE, none |-> TRUE, start |-> 0, end |-> 0]
    ELSE LET start == parseRangeDate(IF startDateRaw.isStr THEN startDateRaw.s ELSE DefaultStart, tz)
             end == parseRangeDate(IF endDateRaw.isStr THEN endDateRaw.s ELSE DefaultEnd, tz)
         IN  [ threw |-> ~ start.valid \/ ~ end.valid, none |-> FALSE,
               start |-> start.t, end |-> end.t ]

\* faulty variant: a meeting dated exactly at a bound is left out
RECURSIVE filterMeetingsExclusive(_, _)
filterMeetingsExclusive(entries, range) ==
    IF entries = <<>> THEN <<>>
    ELSE LET meeting == Head(entries).v
         IN  (IF range.none \/ (meeting.date > range.start /\ meeting.date < range.end)
              THEN <<meeting>> ELSE <<>>)
             \o filterMeetingsExclusive(Tail(entries), range)

\* Object.values(data.meetings).filter(...)
RECURSIVE filterMeetings(_, _)
filterMeetings(entries, range) ==
    IF entries = <<>> THEN <<>>
    ELSE LET meeting == Head(entries).v
         IN  (IF range.none \/ (meeting.date >= range.start /\ meeting.date <= range.end)
              THEN <<meeting>> ELSE <<>>)
             \o filterMeetings(Tail(entries), range)

\* Words that name a property every object inherits: `counts[w]` is then a
\* function, and `(counts[w] || 0) + 1` a string instead of a count.
InheritedWords == { <<"c", "o", "n", "s", "t", "r", "u", "c", "t", "o", "r">> }

NotACount == -1

\* counts[key] = (counts[key] || 0) + 1
IncCount(counts, key) ==
    IF HasOwn(counts, key)
    THEN LET old == Own(counts, key).v
         IN  ObjSet(counts, key, IF old = NotACount THEN NotACount ELSE old + 1)
    ELSE IF key \in InheritedWords THEN ObjSet(counts, key, NotACount)
    ELSE ObjSet(counts, key, 1)

\* Object.entries(counts).sort((a, b) => b[1] - a[1]); a NaN difference compares equal
RECURSIVE insertByCount(_, _)
insertByCount(sorted, e) ==
    IF sorted = <<>> THEN <<e>>
    ELSE IF e.v # NotACount /\ Head(sorted).v # NotACount /\ e.v > Head(sorted).v
         THEN <<e>> \o sorted
    ELSE <<Head(sorted)>> \o insertByCount(Tail(sorted), e)

RECURSIVE sortByCount(_)
sortByCount(entries) ==
    IF entries = <<>> THEN <<>>
    ELSE insertByCount(sortByCount(SubSeq(entries, 1, Len(entries) - 1)), entries[Len(entries)])

RECURSIVE countEach(_, _)
countEach(keys, counts) ==
    IF keys = <<>> THEN counts ELSE countEach(Tail(keys), IncCount(counts, Head(keys)))

RECURSIVE participantCounts(_, _)
participantCounts(meetings, counts) ==
    IF meetings = <<>> THEN counts
    ELSE participantCounts(Tail(meetings), countEach(Head(meetings).participants, counts))

analyzeParticipantPatterns(meetings) ==
    [ pattern |-> "participants",
      meetingCount |-> Len(meetings),
      entries |-> sortByCount(participantCounts(meetings, <<>>)),
      average |-> <<0, 1>> ]

\* faulty variant: the local getters (getFullYear, getMonth) name the bucket
monthKeyLocal(date) == <<getUTCFullYear(date + localTz), getUTCMonth(date + localTz) + 1>>

\* `${y}-${m}` as the pair <<y, m>>
monthKey(date) == <<getUTCFullYear(date), getUTCMonth(date) + 1>>

RECURSIVE monthCounts(_, _)
monthCounts(meetings, byMonth) ==
    IF meetings = <<>> THEN byMonth
    ELSE monthCounts(Tail(meetings), IncCount(byMonth, monthKey(Head(meetings).date)))

\* average is the fraction <<numerator, denominator>>
analyzeFrequencyPatterns(meetings) ==
    LET byMonth == monthCounts(meetings, <<>>)
        monthCount == Len(byMonth)
    IN  [ pattern |-> "frequency",
          meetingCount |-> Len(meetings),
          entries |-> byMonth,
          average |-> IF monthCount > 0 THEN <<Len(meetings), monthCount>> ELSE <<0, 1>> ]

TOPIC_STOP_WORDS ==
    { <<"m", "e", "e", "t", "i", "n", "g">>, <<"c", "a", "l", "l">>,
      <<"s", "y", "n", "c">>, <<"w", "i", "t", "h">> }

\* [a-z0-9_-]
TopicChars ==
    { "a", "b", "c", "d", "e", "f", "g", "h", "i", "j", "k", "l", "m", "n", "o", "p", "q",
      "r", "s", "t", "u", "v", "w", "x", "y", "z", "0", "1", "2", "3", "4", "5", "6", "7",
      "8", "9", "_", "-" }

\* s.split(/\s+/)
RECURSIVE splitWhitespace(_, _, _)
splitWhitespace(s, cur, inGap) ==
    IF s = <<>> THEN <<cur>>
    ELSE IF IsSpace(Head(s))
         THEN IF inGap THEN splitWhitespace(Tail(s), cur, TRUE)
              ELSE <<cur>> \o splitWhitespace(Tail(s), <<>>, TRUE)
    ELSE splitWhitespace(Tail(s), Append(cur, Head(s)), FALSE)

\* rawWord.replace(/[^a-z0-9_-]/g, "")
stripWord(rawWord) == SelectSeq(rawWord, LAMBDA c : c \in TopicChars)

RECURSIVE topicWords(_)
topicWords(rawWords) ==
    IF rawWords = <<>> THEN <<>>
    ELSE LET word == stripWord(Head(rawWords))
         IN  (IF Len(word) <= 3 \/ word \in TOPIC_STOP_WORDS THEN <<>> ELSE <<word>>)
             \o topicWords(Tail(rawWords))

RECURSIVE topicCounts(_, _)
topicCounts(meetings, counts) ==
    IF meetings = <<>> THEN counts
    ELSE topicCounts(Tail(meetings),
             countEach(topicWords(splitWhitespace(toLowerCase(Head(meetings).title), <<>>, FALSE)),
                       counts))

analyzeTopicPatterns(meetings) ==
    [ pattern |-> "topics",
      meetingCount |-> Len(meetings),
      entries |-> sortByCount(topicCounts(meetings, <<>>)),
      average |-> <<0, 1>> ]

----------------------------------------------------------------------------
(* main: the run *)

DefaultLimit == 10

NoArgs ==
    [ json |-> FALSE, parsePanels |-> TRUE, query |-> NonStr, limit |-> NonStr,
      meetingId |-> "", patternType |-> "", startDate |-> NonStr, endDate |-> NonStr ]

NoOut == [kind |-> "none", notFound |-> FALSE, partial |-> FALSE, body |-> <<>>]

Result(kind, body) == [kind |-> kind, notFound |-> FALSE, partial |-> FALSE, body |-> body]

\* the `{ error: msg }` / message line written for an unknown id
NotFound(kind) == [kind |-> kind, notFound |-> TRUE, partial |-> FALSE, body |-> <<>>]

\* The argument maps a command line can produce for `cmd`, over the input sets U.
\* argsMap never holds an empty string: `--x ""` is "Missing value for --x".
ArgsFor(U, cmd) ==
    LET flags == {[NoArgs EXCEPT !.json = j, !.parsePanels = p] : j \in U.json, p \in U.panels}
    IN  CASE cmd = "search-meetings" ->
                {[a EXCEPT !.query = q, !.limit = l] : a \in flags, q \in U.queries, l \in U.limits}
          [] cmd \in {"get-meeting-details", "get-meeting-transcript", "get-meeting-documents"} ->
                {[a EXCEPT !.meetingId = i] : a \in flags, i \in U.ids}
          [] cmd = "analyze-meeting-patterns" ->
                {[a EXCEPT !.patternType = k, !.startDate = s, !.endDate = e] :
                    a \in flags, k \in U.kinds, s \in U.dates, e \in U.dates}
          [] OTHER -> flags

InitWith(U) ==
    /\ pc = "start"
    /\ file \in U.files
    /\ now \in U.nows
    /\ localTz \in U.tzs
    /\ argv = "none"
    /\ command = ""
    /\ args = NoArgs
    /\ data = EmptyCache(0)
    /\ computed = "none"
    /\ out = NoOut
    /\ exit = "running"
    /\ error = "none"

\* throw new Error(...) anywhere in main: caught at top level, message printed, exit(1)
Throw(msg) ==
    /\ pc' = "done"
    /\ exit' = "err1"
    /\ error' = msg

\* argv is empty or holds -h / --help: usage(0)
Help ==
    /\ pc = "start"
    /\ argv' = "help"
    /\ pc' = "done"
    /\ exit' = "usage0"
    /\ UNCHANGED <<command, args, file, now, localTz, data, computed, out, error>>

\* the flag loop meets a bare word or a flag without value
ArgvError ==
    /\ pc = "start"
    /\ \E shape \in {"unexpected", "missing"} : argv' = shape
    /\ Throw("argv")
    /\ UNCHANGED <<command, args, file, now, localTz, data, computed, out>>

\* faulty variant: the command name is recognized before the cache is loaded
ParseArgsRecognizingCommand(U) ==
    /\ pc = "start"
    /\ argv' = "ok"
    /\ \E cmd \in U.commands :
          /\ command' = cmd
          /\ args' \in ArgsFor(U, cmd)
          /\ IF cmd \in {"search-meetings", "get-meeting-details", "get-meeting-transcript",
                          "get-meeting-documents", "analyze-meeting-patterns"}
             THEN pc' = "load" /\ exit' = exit
             ELSE pc' = "done" /\ exit' = "usage2"
    /\ UNCHANGED <<file, now, localTz, data, computed, out, error>>

ParseArgs(U) ==
    /\ pc = "start"
    /\ argv' = "ok"
    /\ \E cmd \in U.commands :
          /\ command' = cmd
          /\ args' \in ArgsFor(U, cmd)
    /\ pc' = "load"
    /\ UNCHANGED <<file, now, localTz, data, computed, out, exit, error>>

\* const data = loadCache(cachePath, parsePanels)
LoadCache ==
    /\ pc = "load"
    /\ LET r == loadCache(file, args.parsePanels, now, localTz)
       IN  IF r.threw
           THEN Throw("parse") /\ UNCHANGED data
           ELSE /\ data' = r.data
                /\ pc' = "dispatch"
                /\ UNCHANGED <<exit, error>>
    /\ UNCHANGED <<argv, command, args, file, now, localTz, computed, out>>

\* faulty variant: main does not return after writing the result
FinishWithoutReturn(result) ==
    /\ out' = result
    /\ pc' = pc
    /\ exit' = exit
    /\ UNCHANGED error

\* return from main after process.stdout.write
Finish(result) ==
    /\ out' = result
    /\ pc' = "done"
    /\ exit' = "ok"
    /\ UNCHANGED error

limitOf(a) == IF a.limit.isStr THEN Number(a.limit.s) ELSE IntNumber(DefaultLimit)

\* faulty variant: the search runs and its result is written before the limit is checked
SearchMeetingsCmdValidatingLate ==
    /\ pc = "dispatch" /\ command = "search-meetings"
    /\ LET limit == limitOf(args)
       IN  IF ~ args.query.isStr
           THEN Throw("query-required") /\ UNCHANGED <<computed, out>>
           ELSE /\ computed' = "search"
                /\ IF limit.nan \/ NotPositive(limit)
                   THEN /\ Throw("limit")
                        /\ out' = Result("search", searchMeetings(data, args.query.s, limit))
                   ELSE Finish(Result("search", searchMeetings(data, args.query.s, limit)))
    /\ UNCHANGED <<argv, command, args, file, now, localTz, data>>

\* faulty variant: the search lower-cases the titles in place, in the Cache
SearchMeetingsCmdNormalizingInPlace ==
    /\ pc = "dispatch" /\ command = "search-meetings"
    /\ LET limit == limitOf(args)
       IN  IF ~ args.query.isStr
           THEN Throw("query-required") /\ UNCHANGED <<computed, out, data>>
           ELSE IF limit.nan \/ NotPositive(limit)
           THEN Throw("limit") /\ UNCHANGED <<computed, out, data>>
           ELSE /\ computed' = "search"
                /\ data' = [ data EXCEPT !.meetings =
                               [ i \in DOMAIN @ |->
                                   [ @[i] EXCEPT !.v.title = toLowerCase(@) ] ] ]
                /\ Finish(Result("search", searchMeetings(data', args.query.s, limit)))
    /\ UNCHANGED <<argv, command, args, file, now, localTz>>

SearchMeetingsCmd ==
    /\ pc = "dispatch" /\ command = "search-meetings"
    /\ LET limit == limitOf(args)
       IN  IF ~ args.query.isStr
           THEN Throw("query-required") /\ UNCHANGED <<computed, out>>
           ELSE IF limit.nan \/ NotPositive(limit)
           THEN Throw("limit") /\ UNCHANGED <<computed, out>>
           ELSE /\ computed' = "search"
                /\ Finish(Result("search", searchMeetings(data, args.query.s, limit)))
    /\ UNCHANGED <<argv, command, args, file, now, localTz, data>>

RECURSIVE documentsOf(_, _)
documentsOf(entries, meetingId) ==
    IF entries = <<>> THEN <<>>
    ELSE (IF Head(entries).v.meetingId = meetingId THEN <<Head(entries).v>> ELSE <<>>)
         \o documentsOf(Tail(entries), meetingId)

GetMeetingDetailsCmd ==
    /\ pc = "dispatch" /\ command = "get-meeting-details"
    /\ LET meetingId == args.meetingId
           found == Lookup(data.meetings, meetingId)
       IN  IF meetingId = ""
           THEN Throw("meeting-id-required") /\ UNCHANGED <<computed, out>>
           ELSE IF found = "undefined"
           THEN /\ computed' = "details"
                /\ Finish(NotFound("details"))
           ELSE IF found = "inherited"
           \* `meeting` is a function of Object.prototype: meeting.date is
           \* undefined and meeting.date.toISOString() a TypeError
           THEN /\ computed' = "details"
                /\ Throw("TypeError")
                /\ UNCHANGED out
           ELSE LET meeting == Own(data.meetings, meetingId).v
                IN  /\ computed' = "details"
                    /\ Finish(Result("details",
                          [ meeting |-> meeting,
                            documents |-> Len(documentsOf(data.documents, meetingId)),
                            transcriptAvailable |->
                                Lookup(data.transcripts, meetingId) # "undefined" ]))
    /\ UNCHANGED <<argv, command, args, file, now, localTz, data>>

\* faulty variant: the Meeting is not looked up, the id is always shown
titleOrIdAlwaysId(meetings, meetingId) ==
    [fromMeeting |-> FALSE, title |-> <<>>, id |-> meetingId]

\* meeting?.title || meetingId; titles are TLA+ strings only for the raw id
titleOrId(meetings, meetingId) ==
    IF Lookup(meetings, meetingId) = "own"
    THEN [fromMeeting |-> TRUE, title |-> Own(meetings, meetingId).v.title, id |-> meetingId]
    ELSE [fromMeeting |-> FALSE, title |-> <<>>, id |-> meetingId]

GetMeetingTranscriptCmd ==
    /\ pc = "dispatch" /\ command = "get-meeting-transcript"
    /\ LET meetingId == args.meetingId
           found == Lookup(data.transcripts, meetingId)
       IN  IF meetingId = ""
           THEN Throw("meeting-id-required") /\ UNCHANGED <<computed, out>>
           ELSE IF found = "undefined"
           THEN /\ computed' = "transcript"
                /\ Finish(NotFound("transcript"))
           ELSE IF found = "inherited"
           \* `transcript` is a function of Object.prototype: its speakers and
           \* content are undefined.  JSON output omits them; text output throws
           \* at transcript.speakers.length after writing the heading.
           THEN /\ computed' = "transcript"
                /\ IF args.json
                   THEN Finish([ kind |-> "transcript", notFound |-> FALSE, partial |-> TRUE,
                                 body |-> [ display |-> titleOrId(data.meetings, meetingId) ] ])
                   ELSE /\ Throw("TypeError")
                        /\ out' = [ kind |-> "transcript", notFound |-> FALSE, partial |-> TRUE,
                                    body |-> [ display |-> titleOrId(data.meetings, meetingId) ] ]
           ELSE /\ computed' = "transcript"
                /\ Finish(Result("transcript",
                      [ display |-> titleOrId(data.meetings, meetingId),
                        transcript |-> Own(data.transcripts, meetingId).v ]))
    /\ UNCHANGED <<argv, command, args, file, now, localTz, data>>

GetMeetingDocumentsCmd ==
    /\ pc = "dispatch" /\ command = "get-meeting-documents"
    /\ LET meetingId == args.meetingId
           documents == documentsOf(data.documents, meetingId)
       IN  IF meetingId = ""
           THEN Throw("meeting-id-required") /\ UNCHANGED <<computed, out>>
           ELSE IF Len(documents) = 0
           THEN /\ computed' = "documents"
                /\ Finish(NotFound("documents"))
           ELSE /\ computed' = "documents"
                /\ Finish(Result("documents",
                      [ display |-> titleOrId(data.meetings, meetingId),
                        documents |-> documents ]))
    /\ UNCHANGED <<argv, command, args, file, now, localTz, data>>

PatternTypes == {"participants", "frequency", "topics"}

analyze(patternType, meetings) ==
    CASE patternType = "participants" -> analyzeParticipantPatterns(meetings)
      [] patternType = "frequency" -> analyzeFrequencyPatterns(meetings)
      [] OTHER -> analyzeTopicPatterns(meetings)

AnalyzeMeetingPatternsCmd ==
    /\ pc = "dispatch" /\ command = "analyze-meeting-patterns"
    /\ LET range == parseDateRange(args.startDate, args.endDate, localTz)
       IN  IF args.patternType = ""
           THEN Throw("pattern-type-required") /\ UNCHANGED <<computed, out>>
           ELSE IF args.patternType \notin PatternTypes
           THEN Throw("pattern-type") /\ UNCHANGED <<computed, out>>
           ELSE IF range.threw
           THEN Throw("date") /\ UNCHANGED <<computed, out>>
           ELSE /\ computed' = "patterns"
                /\ Finish(Result("patterns",
                      analyze(args.patternType, filterMeetings(data.meetings, range))))
    /\ UNCHANGED <<argv, command, args, file, now, localTz, data>>

Commands ==
    { "search-meetings", "get-meeting-details", "get-meeting-transcript",
      "get-meeting-documents", "analyze-meeting-patterns" }

\* no branch matched: usage() prints the usage text and exits with status 2
UnknownCommand ==
    /\ pc = "dispatch" /\ command \notin Commands
    /\ pc' = "done"
    /\ exit' = "usage2"
    /\ UNCHANGED <<argv, command, args, file, now, localTz, data, computed, out, error>>

----------------------------------------------------------------------------
(* Raw cache contents the runs are checked on *)

RawMeeting(title, people, created_at, notes_plain, notes_markdown, notes, overview, summary) ==
    [ isObj |-> TRUE, title |-> title, peopleIsArray |-> TRUE, people |-> people,
      created_at |-> created_at, type |-> NonStr, notes_plain |-> notes_plain,
      notes_markdown |-> notes_markdown, notes |-> notes, overview |-> overview,
      summary |-> summary ]

\* a raw entry that is null, a number or a string
NonObject ==
    [ isObj |-> FALSE, title |-> NonStr, peopleIsArray |-> FALSE, people |-> <<>>,
      created_at |-> NonStr, type |-> NonStr, notes_plain |-> NonStr,
      notes_markdown |-> NonStr, notes |-> NotANode, overview |-> NonStr,
      summary |-> NonStr ]

Person(name) == [isObj |-> TRUE, name |-> name]
NotAPerson == [isObj |-> FALSE, name |-> NonStr]

Seg(text, source) == [isObj |-> TRUE, text |-> text, source |-> source]
NotASeg == [isObj |-> FALSE, text |-> NonStr, source |-> NonStr]

ArrayTranscript(segs) ==
    [ form |-> "array", segs |-> segs, content |-> NonStr, text |-> NonStr,
      transcript |-> NonStr, speakersIsArray |-> FALSE, speakers |-> <<>> ]

ObjectTranscript(content, text, transcript, speakers) ==
    [ form |-> "object", segs |-> <<>>, content |-> content, text |-> text,
      transcript |-> transcript, speakersIsArray |-> TRUE, speakers |-> speakers ]

\* a raw transcript entry that is null, a number or a string
OtherTranscript ==
    [ form |-> "other", segs |-> <<>>, content |-> NonStr, text |-> NonStr,
      transcript |-> NonStr, speakersIsArray |-> FALSE, speakers |-> <<>> ]

\* Keys of the raw maps, in the order the entries are laid out.
IdOf == <<"m1", "m2", "m3", "m4", "m5">>

SeqsUpTo(S, n) == UNION {[1..k -> S] : k \in 0..n}

\* A sample is a raw per-meeting record with the raw transcript stored under
\* the same key (tr.has = FALSE: none).
Sample(rec, tr) == [rec |-> rec, has |-> TRUE, tr |-> tr]
SampleNoTranscript(rec) == [rec |-> rec, has |-> FALSE, tr |-> OtherTranscript]

RECURSIVE transcriptEntries(_, _)
transcriptEntries(samples, i) ==
    IF i > Len(samples) THEN <<>>
    ELSE (IF samples[i].has THEN <<[id |-> IdOf[i], v |-> samples[i].tr]>> ELSE <<>>)
         \o transcriptEntries(samples, i + 1)

\* the raw data holding the samples under the keys m1, m2, ...
RawOf(samples, documentPanels) ==
    [ documents |-> [i \in DOMAIN samples |-> [id |-> IdOf[i], v |-> samples[i].rec]],
      transcripts |-> transcriptEntries(samples, 1),
      documentPanels |-> documentPanels ]

Date2024Jan15 == <<"2", "0", "2", "4", "-", "0", "1", "-", "1", "5", "T", "1", "0", ":", "0", "0", "Z">>
Date2024Feb01 == <<"2", "0", "2", "4", "-", "0", "2", "-", "0", "1">>
NotADate == <<"s", "o", "o", "n">>

Nows == {28600000}

\* A record whose Document content always contains "a" and "b".
SearchRec(title, people) ==
    RawMeeting(title, people, StrV(Date2024Jan15), StrV(<<"a", "b">>), NonStr, NotANode,
               StrV(<<"a", "b">>), NonStr)

PeopleTwo == <<Person(StrV(<<"a">>)), Person(StrV(<<"A", "b">>))>>
PeopleMixed == <<NotAPerson, Person(StrV(<<" ">>)), Person(NonStr), Person(StrV(<<"b", " ">>))>>

TranscriptAB == ArrayTranscript(<<Seg(StrV(<<"a">>), StrV(<<"A">>)), NotASeg, Seg(StrV(<<" ", "B">>), NonStr)>>)
TranscriptB == ObjectTranscript(NonStr, StrV(<<"b">>), NonStr, <<>>)

SearchSamples ==
    { SampleNoTranscript(SearchRec(StrV(<<"A", "b">>), <<>>)),
      SampleNoTranscript(SearchRec(StrV(<<" ">>), PeopleTwo)),
      Sample(SearchRec(NonStr, PeopleMixed), TranscriptAB),
      Sample(SearchRec(StrV(<<"A", "b">>), PeopleTwo), TranscriptAB),
      SampleNoTranscript(SearchRec(NonStr, <<>>)),
      Sample(SearchRec(StrV(<<" ">>), <<>>), TranscriptB),
      Sample(NonObject, TranscriptB) }

MaxMeetings == 3

PlainFile(raw) == CacheFile(TRUE, "object", raw, "absent", EmptyRaw, FALSE, EmptyRaw)

SearchInputs ==
    [ files |-> {PlainFile(RawOf(s, <<>>)) : s \in SeqsUpTo(SearchSamples, MaxMeetings)},
      nows |-> Nows,
      tzs |-> {0},
      commands |-> {"search-meetings"},
      json |-> {TRUE},
      panels |-> {TRUE},
      queries |-> {StrV(<<"a">>), StrV(<<"B">>), StrV(<<"a", "b">>)},
      limits |-> {NonStr, StrV(<<"1">>), StrV(<<"2">>)},
      ids |-> {}, kinds |-> {}, dates |-> {} ]

InitSearch == InitWith(SearchInputs)

NextSearch == ParseArgs(SearchInputs) \/ LoadCache \/ SearchMeetingsCmd

SpecSearch == InitSearch /\ [][NextSearch]_vars

----------------------------------------------------------------------------
(* The runs of the script: every command over a few caches *)

Q1Planning == <<"Q", "1", " ", "P", "l", "a", "n", "n", "i", "n", "g", " ", "S", "y", "n", "c">>
Q1Roadmap == <<"Q", "1", " ", "R", "o", "a", "d", "m", "a", "p", " ", "R", "e", "v", "i", "e", "w">>
Ada == <<"A", "d", "a">>
Bo == <<"B", "o">>

NotesTree ==
    Node("doc", NonStr, "array",
         << Node("paragraph", NonStr, "array", <<TextNode(<<"g", "o">>), TextNode(<<"o", "n">>)>>),
            NotANode,
            Node("heading", NonStr, "array", <<TextNode(<<"A", "d", "a">>)>>) >>)

PanelMap ==
    [ kind |-> "map",
      items |-> << [id |-> <<"p", "2">>, v |-> Node("panel", NonStr, "array", <<TextNode(<<"b">>)>>)],
                   [id |-> <<"p", "1">>, v |-> Node("panel", NonStr, "object", <<TextNode(<<" ", "a">>)>>)] >> ]

RunSamples ==
    { Sample(RawMeeting(StrV(Q1Planning), <<Person(StrV(Ada)), Person(StrV(Bo))>>,
                        StrV(Date2024Jan15), StrV(<<"A", "d", "a">>), NonStr, NotANode,
                        NonStr, NonStr),
             TranscriptAB),
      SampleNoTranscript(RawMeeting(StrV(Q1Roadmap), <<Person(StrV(Ada))>>,
                        StrV(Date2024Feb01), NonStr, NonStr, NotANode, NonStr,
                        StrV(<<"o", "k">>))),
      Sample(NonObject, TranscriptB) }

MaxRecords == 2

RunRaws ==
    { RawOf(s, IF s = <<>> THEN <<>> ELSE <<[id |-> IdOf[Len(s)], v |-> PanelMap]>>) :
        s \in SeqsUpTo(RunSamples, MaxRecords) }

\* a raw data set no run should end up reading
Decoy == RawOf(<<SampleNoTranscript(SearchRec(StrV(<<"A", "d", "a">>), <<>>))>>, <<>>)

WrappedFile(raw) == CacheFile(TRUE, "object", Decoy, "json", raw, FALSE, Decoy)
WrappedStateFile(raw) == CacheFile(TRUE, "object", Decoy, "json", Decoy, TRUE, raw)
BadOuterFile == CacheFile(TRUE, "bad", EmptyRaw, "absent", EmptyRaw, FALSE, EmptyRaw)
BadInnerFile == CacheFile(TRUE, "object", Decoy, "bad", EmptyRaw, FALSE, EmptyRaw)

Malformed(f) == f.exists /\ (f.outer = "bad" \/ f.cache = "bad")

RunInputs ==
    [ files |-> {MissingFile, BadOuterFile, BadInnerFile}
                \cup {PlainFile(r) : r \in RunRaws}
                \cup {WrappedFile(r) : r \in RunRaws}
                \cup {WrappedStateFile(r) : r \in RunRaws},
      nows |-> Nows,
      tzs |-> {0},
      commands |-> Commands \cup {"export"},
      json |-> BOOLEAN,
      panels |-> BOOLEAN,
      queries |-> {NonStr, StrV(<<"q", "1">>), StrV(<<"a", "D">>)},
      limits |-> { NonStr, StrV(<<"1">>), StrV(<<"0">>), StrV(<<"-", "1">>),
                   StrV(<<"a", "b", "c">>), StrV(<<"2", ".", "5">>), StrV(<<"0", ".", "5">>) },
      ids |-> {"", "m1", "m2", "zz", "constructor"},
      kinds |-> {""} \cup PatternTypes \cup {"people"},
      dates |-> {NonStr, StrV(Date2024Feb01), StrV(NotADate)} ]

Init == InitWith(RunInputs)

Next ==
    \/ Help
    \/ ArgvError
    \/ ParseArgs(RunInputs)
    \/ LoadCache
    \/ SearchMeetingsCmd
    \/ GetMeetingDetailsCmd
    \/ GetMeetingTranscriptCmd
    \/ GetMeetingDocumentsCmd
    \/ AnalyzeMeetingPatternsCmd
    \/ UnknownCommand

Spec == Init /\ [][Next]_vars

----------------------------------------------------------------------------
(* Search: scoring and ranking *)

\* s contains q, ignoring case
ContainsCI(s, q) ==
    \E i \in 0..(Len(s) - Len(q)) : \A k \in 1..Len(q) : Lower(s[i + k]) = Lower(q[k])

SearchDone == pc = "done" /\ computed = "search"

MeetingIdsBuilt == {data.meetings[i].id : i \in DOMAIN data.meetings}

PosOf(id) == CHOOSE i \in DOMAIN data.meetings : data.meetings[i].id = id

\* the score the contract assigns to the meeting `id` of the built Cache for query q
ContractScore(id, q) ==
    LET m == data.meetings[PosOf(id)].v
    IN  (IF ContainsCI(m.title, q) THEN 2 ELSE 0)
        + Cardinality({i \in DOMAIN m.participants : ContainsCI(m.participants[i], q)})
        + (IF \E i \in DOMAIN data.transcripts :
                 /\ data.transcripts[i].id = id
                 /\ ContainsCI(data.transcripts[i].v.content, q)
           THEN 1 ELSE 0)

DocumentMentions(id, q) ==
    \E i \in DOMAIN data.documents :
        data.documents[i].id = id /\ ContainsCI(data.documents[i].v.content, q)

ResultIds == {out.body[i].meeting.id : i \in DOMAIN out.body}

PositiveIds == {id \in MeetingIdsBuilt : ContractScore(id, args.query.s) > 0}

\* the integer value of the limit in force (10 when --limit is not given)
LimitInForce == limitOf(args).int

----------------------------------------------------------------------------
(* The run: validation, failure and frame *)

\* the run went through argument parsing with a command and its arguments
RanCommand == pc = "done" /\ argv = "ok"

IsPositiveInteger(n) == ~ n.nan /\ ~ n.neg /\ ~ n.frac /\ n.int > 0

SearchWithLimit ==
    /\ RanCommand /\ command = "search-meetings"
    /\ ~ Malformed(file)
    /\ args.query.isStr /\ args.limit.isStr

\* C3: a supplied limit is accepted only if it is a positive integer; any
\* other supplied value is rejected with the limit validation error and no
\* search result is produced.
C3_OnlyPositiveIntegerLimit ==
    SearchWithLimit =>
        IF IsPositiveInteger(Number(args.limit.s))
        THEN exit = "ok" /\ out.kind = "search"
        ELSE exit = "err1" /\ error = "limit" /\ out.kind = "none"

ValidArguments ==
    CASE command = "search-meetings" ->
            args.query.isStr /\ (args.limit.isStr => IsPositiveInteger(Number(args.limit.s)))
      [] command \in {"get-meeting-details", "get-meeting-transcript", "get-meeting-documents"} ->
            args.meetingId # ""
      [] command = "analyze-meeting-patterns" ->
            /\ args.patternType \in PatternTypes
            /\ args.startDate.isStr => NewDate(args.startDate.s, localTz).valid
            /\ args.endDate.isStr => NewDate(args.endDate.s, localTz).valid
      [] OTHER -> FALSE

\* C4: with no cache file, each of the five queries run with valid arguments
\* ends normally on the empty model: Search returns nothing, the three id
\* lookups return their not-found indicator, AnalyzePatterns reports
\* meetingCount 0 and no counts.
C4_MissingCacheFileSucceeds ==
    (RanCommand /\ ~ file.exists /\ command \in Commands /\ ValidArguments) =>
        /\ exit = "ok"
        /\ error = "none"
        /\ CASE command = "search-meetings" -> out.kind = "search" /\ out.body = <<>>
             [] command = "analyze-meeting-patterns" ->
                   /\ out.kind = "patterns"
                   /\ out.body.meetingCount = 0
                   /\ out.body.entries = <<>>
             [] OTHER -> out.notFound

\* C5: with a cache file that is malformed JSON, at the outer parse or at the
\* parse of the `cache` string, every run of one of the five query commands
\* ends with exit status 1 on the parse error and nothing computed or
\* written, whatever the command's own arguments are.
C5_MalformedCacheIsFatal ==
    (RanCommand /\ Malformed(file) /\ command \in Commands) =>
        /\ exit = "err1"
        /\ error = "parse"
        /\ computed = "none"
        /\ out.kind = "none"

\* a run with a malformed `cache` string and an invalid limit died on the parse error
C5_Witness ==
    /\ RanCommand /\ file = BadInnerFile
    /\ command = "search-meetings"
    /\ args.limit = StrV(<<"a", "b", "c">>)
    /\ exit = "err1" /\ error = "parse"

ValidationErrors == {"limit", "pattern-type", "date"}

\* C6: a run that ends on a validation failure (invalid limit, invalid
\* pattern kind, invalid date string) has computed no search, lookup or
\* analysis and has written no result.
C6_ValidationBeforeQuery ==
    (pc = "done" /\ error \in ValidationErrors) =>
        /\ exit = "err1"
        /\ computed = "none"
        /\ out.kind = "none"

\* a run over a non-empty cache was rejected for its date string
C6_Witness ==
    /\ pc = "done" /\ error = "date"
    /\ Len(data.meetings) > 0
    /\ args.patternType = "topics"
    /\ computed = "none" /\ out.kind = "none"

\* the map a lookup command reads
LookupMap ==
    CASE command = "get-meeting-details" -> data.meetings
      [] command = "get-meeting-transcript" -> data.transcripts
      [] OTHER -> data.documents

\* C7: GetDetails, GetTranscript and GetDocuments run with an id that is no
\* key of the map they read end normally with the not-found indicator: no
\* error is thrown and the run does not take the failure exit.
C7_UnknownIdIsNotFound ==
    ( /\ RanCommand /\ ~ Malformed(file)
      /\ command \in {"get-meeting-details", "get-meeting-transcript", "get-meeting-documents"}
      /\ args.meetingId # ""
      /\ ~ HasOwn(LookupMap, args.meetingId) ) =>
        /\ exit = "ok"
        /\ error = "none"
        /\ out.notFound

\* C8: a query operation leaves the built Cache as it is, and no step of a
\* run changes the cache file.
C8_ReadOnly ==
    [][ /\ file' = file
        /\ pc = "dispatch" => data' = data ]_vars

\* an analysis has run over a cache that holds meetings with participants
C8_Witness ==
    /\ pc = "done" /\ computed = "patterns"
    /\ \E i \in DOMAIN data.meetings : Len(data.meetings[i].v.participants) = 2
    /\ out.body.meetingCount > 0

----------------------------------------------------------------------------
(* The builder: what parseCacheData stores *)

BuildRecords ==
    { NonObject,
      RawMeeting(StrV(Q1Planning), <<Person(StrV(Ada)), NotAPerson>>, StrV(Date2024Jan15),
                 NonStr, NonStr, NotesTree, StrV(<<"o", "k">>), NonStr),
      RawMeeting(NonStr, <<>>, NonStr, NonStr, NonStr, NotANode, NonStr, NonStr) }

\* segments that name speakers but carry no text
SpeakersOnly ==
    ArrayTranscript(<<Seg(StrV(<<" ">>), StrV(Ada)), Seg(NonStr, StrV(Bo)), NotASeg>>)

\* an object whose content fields are blank or no strings, with a speakers list
BlankObject ==
    ObjectTranscript(StrV(<<" ", " ">>), NonStr, StrV(<<>>), <<StrV(Ada)>>)

BuildSamples ==
    {SampleNoTranscript(r) : r \in BuildRecords}
    \cup { Sample(r, tr) : r \in BuildRecords,
                           tr \in {TranscriptAB, TranscriptB, SpeakersOnly, BlankObject,
                                   OtherTranscript} }

BuildInputs ==
    [ files |-> { PlainFile(RawOf(s, IF s = <<>> THEN <<>>
                                     ELSE <<[id |-> IdOf[1], v |-> PanelMap]>>)) :
                    s \in SeqsUpTo(BuildSamples, MaxRecords) },
      nows |-> Nows,
      tzs |-> TzOffsets,
      commands |-> {"get-meeting-documents"},
      json |-> {TRUE},
      panels |-> BOOLEAN,
      queries |-> {}, limits |-> {},
      ids |-> {"m1"},
      kinds |-> {}, dates |-> {} ]

InitBuild == InitWith(BuildInputs)

NextBuild == ParseArgs(BuildInputs) \/ LoadCache \/ GetMeetingDocumentsCmd

SpecBuild == InitBuild /\ [][NextBuild]_vars

\* loadCache has returned the built Cache
Built == pc \in {"dispatch", "done"}

\* the raw data of a cache file that is not wrapped in a `cache` string
RawRead == file.top

\* C9: every key of the documents map is a key of the meetings map, and a raw
\* per-meeting entry that is no object yields neither a Meeting nor a Document.
C9_DocumentsHaveMeetings ==
    Built =>
        /\ \A i \in DOMAIN data.documents :
              \E j \in DOMAIN data.meetings : data.meetings[j].id = data.documents[i].id
        /\ \A k \in DOMAIN RawRead.documents :
              ~ RawRead.documents[k].v.isObj =>
                 /\ \A i \in DOMAIN data.documents : data.documents[i].id # RawRead.documents[k].id
                 /\ \A j \in DOMAIN data.meetings : data.meetings[j].id # RawRead.documents[k].id

\* a cache built from one non-object entry and one record: one Document
C9_Witness ==
    /\ Built
    /\ Len(RawRead.documents) = 2
    /\ ~ RawRead.documents[1].v.isObj
    /\ Len(data.documents) = 1
    /\ data.documents[1].id = "m2"

HasInk(s) == \E i \in DOMAIN s : s[i] \notin {" ", "\n"}

InkField(f) == f.isStr /\ HasInk(f.s)

\* the raw transcript entry flattens to empty or whitespace-only content
FlattensToBlank(tr) ==
    CASE tr.form = "array" ->
            \A i \in DOMAIN tr.segs : ~ (tr.segs[i].isObj /\ InkField(tr.segs[i].text))
      [] tr.form = "object" ->
            ~ InkField(tr.content) /\ ~ InkField(tr.text) /\ ~ InkField(tr.transcript)
      [] OTHER -> TRUE

NamesSpeakers(tr) ==
    \/ \E i \in DOMAIN tr.segs : tr.segs[i].isObj /\ InkField(tr.segs[i].source)
    \/ tr.speakersIsArray /\ \E i \in DOMAIN tr.speakers : InkField(tr.speakers[i])

\* C10: every stored Transcript has content with a non-whitespace character,
\* and a raw transcript entry (array or object form) that flattens to blank
\* content has no entry in the transcripts map, speaker labels or not.
C10_TranscriptsHaveContent ==
    Built =>
        /\ \A i \in DOMAIN data.transcripts : HasInk(data.transcripts[i].v.content)
        /\ \A k \in DOMAIN RawRead.transcripts :
              FlattensToBlank(RawRead.transcripts[k].v) =>
                 \A i \in DOMAIN data.transcripts :
                    data.transcripts[i].id # RawRead.transcripts[k].id

\* a blank raw transcript naming speakers was dropped while another was stored
C10_Witness ==
    /\ Built
    /\ \E k \in DOMAIN RawRead.transcripts :
          /\ FlattensToBlank(RawRead.transcripts[k].v)
          /\ NamesSpeakers(RawRead.transcripts[k].v)
          /\ RawRead.transcripts[k].v.form = "object"
    /\ Len(RawRead.transcripts) = 2
    /\ Len(data.transcripts) = 1

----------------------------------------------------------------------------
(* Document content: which source gives the body *)

PlainText == <<"p", "l">>
PaddedPlain == <<" ", "p", "l", "\n">>
MarkdownText == <<"#", " ", "m", "d">>
OverviewText == <<"o", "v">>
SummaryText == <<"s", "m">>

\* flattens to "tr ee"
ContentTree ==
    Node("doc", NonStr, "array",
         << Node("paragraph", NonStr, "array", <<TextNode(<<"t", "r">>), TextNode(<<"e", "e">>)>>) >>)

\* a notes tree whose only text is a space
BlankTree == Node("doc", NonStr, "array", <<TextNode(<<" ">>)>>)

\* flattens to "pn", blank line, "qq"
ContentPanels ==
    [ kind |-> "map",
      items |-> << [id |-> <<"p", "2">>, v |-> Node("panel", NonStr, "array", <<TextNode(<<"q", "q">>)>>)],
                   [id |-> <<"p", "1">>, v |-> Node("panel", NonStr, "array", <<TextNode(<<"p", "n">>)>>)] >> ]

\* panels whose only text is a space
BlankPanels ==
    [ kind |-> "array",
      items |-> << [id |-> <<>>, v |-> Node("panel", NonStr, "array", <<TextNode(<<" ">>)>>)] >> ]

ContentRecords ==
    { RawMeeting(StrV(Q1Planning), <<>>, StrV(Date2024Jan15), p, m, n, o, s) :
        p \in {NonStr, StrV(<<" ">>), StrV(PlainText), StrV(PaddedPlain)},
        m \in {NonStr, StrV(<<"\n">>), StrV(MarkdownText)},
        n \in {NotANode, BlankTree, ContentTree},
        o \in {NonStr, StrV(<<" ">>), StrV(OverviewText)},
        s \in {NonStr, StrV(<<"\n">>), StrV(SummaryText)} }

\* documentPanels: none, panels of the record, blank panels, panels of another id
ContentPanelMaps ==
    { <<>>,
      <<[id |-> "m1", v |-> ContentPanels]>>,
      <<[id |-> "m1", v |-> BlankPanels]>>,
      <<[id |-> "m2", v |-> ContentPanels]>> }

ContentInputs ==
    [ files |-> { PlainFile(RawOf(<<SampleNoTranscript(r)>>, panels)) :
                    r \in ContentRecords, panels \in ContentPanelMaps },
      nows |-> Nows,
      tzs |-> {0},
      commands |-> {"get-meeting-documents"},
      json |-> {TRUE},
      panels |-> BOOLEAN,
      queries |-> {}, limits |-> {},
      ids |-> {"m1"},
      kinds |-> {}, dates |-> {} ]

InitContent == InitWith(ContentInputs)

NextContent == ParseArgs(ContentInputs) \/ LoadCache \/ GetMeetingDocumentsCmd

SpecContent == InitContent /\ [][NextContent]_vars

\* the text of a raw field ("" when it is no string)
TextOf(f) == IF f.isStr THEN f.s ELSE <<>>

\* the raw record a Document was built from
RawRecordOf(id) ==
    RawRead.documents[CHOOSE k \in DOMAIN RawRead.documents : RawRead.documents[k].id = id].v

\* the text panel extraction gives for a record
PanelTextOf(id) == extractDocumentPanelContent(panelsFor(RawRead.documentPanels, id))

\* the four sources of a body, in priority order; the last one only with panels enabled
BodySources(id) ==
    << TextOf(RawRecordOf(id).notes_plain),
       TextOf(RawRecordOf(id).notes_markdown),
       extractStructuredNotes(RawRecordOf(id).notes),
       IF args.parsePanels THEN PanelTextOf(id) ELSE <<>> >>

\* the first source holding a non-whitespace character, if any
FirstUsable(sources) ==
    IF \E i \in DOMAIN sources : HasInk(sources[i])
    THEN <<sources[CHOOSE i \in DOMAIN sources :
                      HasInk(sources[i]) /\ \A j \in 1..(i - 1) : ~ HasInk(sources[j])]>>
    ELSE <<>>

\* the Overview / Summary sections of a record
Sections(rec) ==
    (IF InkField(rec.overview) THEN <<OverviewLabel \o rec.overview.s>> ELSE <<>>)
    \o (IF InkField(rec.summary) THEN <<SummaryLabel \o rec.summary.s>> ELSE <<>>)

\* a text that occurs in the samples' source i and in no other source or section
SourceMarks == <<PlainText, <<"m", "d">>, <<"t", "r">>, <<"p", "n">>>>

\* C11: the body of every Document is the first of notes_plain, notes_markdown,
\* structured notes, panel text that is not blank; a later source shows up only
\* when every earlier one is blank, and no two sources show up together.
C11_FirstNonEmptySourceWins ==
    Built =>
        \A d \in DOMAIN data.documents :
            LET id == data.documents[d].id
                content == data.documents[d].v.content
                sources == BodySources(id)
                shown == {i \in 1..4 : includes(content, SourceMarks[i])}
            IN  /\ content = trim(join(FirstUsable(sources) \o Sections(RawRecordOf(id)), Para))
                /\ Cardinality(shown) <= 1
                /\ \A i \in shown : \A j \in 1..(i - 1) : ~ HasInk(sources[j])

\* panel text became the body of a record whose three notes fields are present but blank
C11_Witness ==
    /\ Built /\ args.parsePanels
    /\ Len(data.documents) = 1
    /\ LET rec == RawRecordOf("m1")
       IN  /\ rec.notes_plain.isStr /\ rec.notes_markdown.isStr /\ rec.notes.isObj
           /\ ~ HasInk(rec.notes_plain.s) /\ ~ HasInk(rec.notes_markdown.s)
           /\ InkField(rec.overview)
    /\ includes(data.documents[1].v.content, <<"p", "n">>)

\* notes_plain and notes_markdown of the record are strings, not empty, not equal
PlainAndMarkdownDiffer(rec) ==
    /\ rec.notes_plain.isStr /\ rec.notes_markdown.isStr
    /\ rec.notes_plain.s # <<>> /\ rec.notes_markdown.s # <<>>
    /\ rec.notes_plain.s # rec.notes_markdown.s

\* C12 as stated: when notes_plain and notes_markdown are different non-empty
\* strings, the Document's content is the notes_plain value and not the
\* notes_markdown value.
C12_ContentIsNotesPlain ==
    Built =>
        \A d \in DOMAIN data.documents :
            LET rec == RawRecordOf(data.documents[d].id)
                content == data.documents[d].v.content
            IN  PlainAndMarkdownDiffer(rec) =>
                    /\ content = rec.notes_plain.s
                    /\ content # rec.notes_markdown.s

\* C12 amended: when notes_plain and notes_markdown are different strings that
\* each hold a non-whitespace character, the Document's content is the
\* notes_plain value followed by the record's Overview and Summary sections,
\* joined by blank lines and trimmed; notes_markdown gives no part of it.
C12_PlainNotesAreTheBody ==
    Built =>
        \A d \in DOMAIN data.documents :
            LET rec == RawRecordOf(data.documents[d].id)
                content == data.documents[d].v.content
            IN  (PlainAndMarkdownDiffer(rec) /\ HasInk(rec.notes_plain.s)
                                            /\ HasInk(rec.notes_markdown.s)) =>
                    content = trim(join(<<rec.notes_plain.s>> \o Sections(rec), Para))

\* a record with padded plain notes, markdown notes and a summary was built
C12_Witness ==
    /\ Built
    /\ Len(data.documents) = 1
    /\ LET rec == RawRecordOf("m1")
       IN  /\ rec.notes_plain = StrV(PaddedPlain)
           /\ rec.notes_markdown = StrV(MarkdownText)
           /\ InkField(rec.summary)
    /\ includes(data.documents[1].v.content, PlainText)

\* the record has no plain, markdown or structured notes
NoNotes(rec) ==
    /\ ~ InkField(rec.notes_plain)
    /\ ~ InkField(rec.notes_markdown)
    /\ ~ HasInk(extractStructuredNotes(rec.notes))

\* texts of the sample panels
PanelMarks == {<<"p", "n">>, <<"q", "q">>}

\* C13 as stated: with panels disabled no Document holds panel text, and a
\* record without plain, markdown or structured notes gets empty content.
C13_NoPanelsEmptyContent ==
    (Built /\ ~ args.parsePanels) =>
        \A d \in DOMAIN data.documents :
            LET rec == RawRecordOf(data.documents[d].id)
                content == data.documents[d].v.content
            IN  /\ \A mark \in PanelMarks : ~ includes(content, mark)
                /\ NoNotes(rec) => content = <<>>

\* C13 amended: with panels disabled no Document holds panel text, and the
\* content of a record without plain, markdown or structured notes is only its
\* Overview and Summary sections: empty when the record has neither.
C13_NoPanelsNoFallback ==
    (Built /\ ~ args.parsePanels) =>
        \A d \in DOMAIN data.documents :
            LET rec == RawRecordOf(data.documents[d].id)
                content == data.documents[d].v.content
            IN  /\ \A mark \in PanelMarks : ~ includes(content, mark)
                /\ NoNotes(rec) => content = trim(join(Sections(rec), Para))

\* panels are disabled, the record has panel text and no notes: empty content
C13_Witness ==
    /\ Built /\ ~ args.parsePanels
    /\ HasInk(PanelTextOf("m1"))
    /\ NoNotes(RawRecordOf("m1"))
    /\ Len(data.documents) = 1
    /\ data.documents[1].v.content = <<>>

----------------------------------------------------------------------------
(* Building the same cache file twice *)

\* the Cache a second load of the same file gives when started at `clock`
Rebuild(clock) == loadCache(file, args.parsePanels, clock, localTz).data

\* start times of the second build: the same minute, the next one, a day later
RebuildClocks == {now, now + 1, now + 1440}

\* the record carries a creation timestamp that parses
Dated(rec) ==
    /\ InkField(rec.created_at)
    /\ NewDate(ReplaceTrailingZ(rec.created_at.s), localTz).valid

Undated(map) == [i \in DOMAIN map |-> [id |-> map[i].id, v |-> [map[i].v EXCEPT !.date = 0]]]

Unstamped(map) ==
    [i \in DOMAIN map |-> [id |-> map[i].id, v |-> [map[i].v EXCEPT !.createdAt = 0]]]

\* C14 as stated: a second build of the same raw input with the same panel
\* setting gives the same meetings, documents and transcripts maps, dates
\* included.
C14_RebuildIsIdentical ==
    Built =>
        \A clock \in RebuildClocks :
            /\ Rebuild(clock).meetings = data.meetings
            /\ Rebuild(clock).documents = data.documents
            /\ Rebuild(clock).transcripts = data.transcripts

\* C14 amended: the two builds give the same keys in the same order and the
\* same field values, except that the date of a Meeting whose created_at is
\* missing, blank or unparsable, and the createdAt of its Document, are the
\* load time of the build that made them.
C14_RebuildDiffersOnlyInFallbackDates ==
    Built =>
        \A clock \in RebuildClocks :
            LET again == Rebuild(clock)
            IN  /\ again.transcripts = data.transcripts
                /\ Undated(again.meetings) = Undated(data.meetings)
                /\ Unstamped(again.documents) = Unstamped(data.documents)
                /\ \A i \in DOMAIN data.meetings :
                      IF Dated(RawRecordOf(data.meetings[i].id))
                      THEN again.meetings[i].v.date = data.meetings[i].v.date
                      ELSE /\ data.meetings[i].v.date = now
                           /\ again.meetings[i].v.date = clock
                /\ \A i \in DOMAIN data.documents :
                      IF Dated(RawRecordOf(data.documents[i].id))
                      THEN again.documents[i].v.createdAt = data.documents[i].v.createdAt
                      ELSE /\ data.documents[i].v.createdAt = now
                           /\ again.documents[i].v.createdAt = clock

\* a cache with a dated and an undated record and a transcript was built, and
\* a build one minute later gives other meetings
C14_Witness ==
    /\ Built
    /\ Len(data.meetings) = 2 /\ Len(data.documents) = 2 /\ Len(data.transcripts) = 1
    /\ \E i, j \in DOMAIN data.meetings :
          /\ Dated(RawRecordOf(data.meetings[i].id))
          /\ ~ Dated(RawRecordOf(data.meetings[j].id))
    /\ Rebuild(now + 1).meetings # data.meetings

----------------------------------------------------------------------------
(* Pattern analysis over caches of dated meetings *)

Date2024Feb01Early == <<"2", "0", "2", "4", "-", "0", "2", "-", "0", "1", "T", "0", "0", ":", "3", "0">>
Date2024Feb30 == <<"2", "0", "2", "4", "-", "0", "2", "-", "3", "0">>
Date1899Dec31 == <<"1", "8", "9", "9", "-", "1", "2", "-", "3", "1">>

PlanningCall ==
    <<"P", "l", "a", "n", "n", "i", "n", "g", ":", " ", "c", "a", "l", "l", " ", " ",
      "w", "i", "t", "h", " ", "A", "d", "a", "!">>

ConstructorReview ==
    <<"C", "o", "n", "s", "t", "r", "u", "c", "t", "o", "r", " ", "r", "e", "v", "i", "e", "w">>

AnalyzeRec(title, people, created_at) ==
    RawMeeting(title, people, created_at, NonStr, NonStr, NotANode, NonStr, NonStr)

AnalyzeSamples ==
    { SampleNoTranscript(AnalyzeRec(StrV(Q1Planning), <<Person(StrV(Ada)), Person(StrV(Bo))>>,
                                    StrV(Date2024Jan15))),
      SampleNoTranscript(AnalyzeRec(StrV(Q1Roadmap), <<Person(StrV(Ada))>>, StrV(Date2024Feb01))),
      SampleNoTranscript(AnalyzeRec(StrV(PlanningCall), <<Person(StrV(Ada)), Person(StrV(Ada))>>,
                                    StrV(Date2024Feb01Early))),
      SampleNoTranscript(AnalyzeRec(StrV(ConstructorReview),
                                    <<Person(StrV(<<"c", "o", "n", "s", "t", "r", "u", "c", "t", "o", "r">>))>>,
                                    StrV(Date1899Dec31))),
      SampleNoTranscript(AnalyzeRec(NonStr, <<>>, NonStr)) }

AnalyzeInputs ==
    [ files |-> {PlainFile(RawOf(s, <<>>)) : s \in SeqsUpTo(AnalyzeSamples, MaxRecords)},
      nows |-> Nows,
      tzs |-> TzOffsets,
      commands |-> {"analyze-meeting-patterns"},
      json |-> {TRUE},
      panels |-> {TRUE},
      queries |-> {}, limits |-> {}, ids |-> {},
      kinds |-> {"", "people"} \cup PatternTypes,
      dates |-> {NonStr, StrV(Date2024Feb01), StrV(Date2024Feb30), StrV(NotADate)} ]

InitAnalyze == InitWith(AnalyzeInputs)

NextAnalyze == ParseArgs(AnalyzeInputs) \/ LoadCache \/ AnalyzeMeetingPatternsCmd

SpecAnalyze == InitAnalyze /\ [][NextAnalyze]_vars

\* an analysis of the given kind has been written
Analyzed(kind) ==
    /\ pc = "done" /\ command = "analyze-meeting-patterns"
    /\ computed = "patterns" /\ args.patternType = kind

MeetingsOf(cacheData) == [i \in DOMAIN cacheData.meetings |-> cacheData.meetings[i].v]

\* the time value of a date the run accepted
TimeOf(s) == NewDate(s, localTz).t

\* the meetings m with lo <= m.date <= hi, in map order
Within(lo, hi) == SelectSeq(MeetingsOf(data), LAMBDA m : lo <= m.date /\ m.date <= hi)

\* C15 as stated: the analysis is computed over exactly the meetings dated
\* within [start, end], bounds included, where an omitted start is 1900-01-01
\* and an omitted end 2100-01-01, also when both are omitted.
C15_WindowWithDefaults ==
    \A kind \in PatternTypes :
        Analyzed(kind) =>
            out.body = analyze(kind,
                Within(IF args.startDate.isStr THEN TimeOf(args.startDate.s) ELSE TimeOf(DefaultStart),
                       IF args.endDate.isStr THEN TimeOf(args.endDate.s) ELSE TimeOf(DefaultEnd)))

\* C15 amended: with at least one bound supplied the analysis is computed over
\* exactly the meetings dated within [start, end], bounds included, an omitted
\* bound being 1900-01-01 resp. 2100-01-01; with both bounds omitted it is
\* computed over every meeting, whatever its date.
C15_WindowOrEverything ==
    \A kind \in PatternTypes :
        Analyzed(kind) =>
            out.body = analyze(kind,
                IF ~ args.startDate.isStr /\ ~ args.endDate.isStr
                THEN MeetingsOf(data)
                ELSE Within(IF args.startDate.isStr THEN TimeOf(args.startDate.s)
                                                    ELSE TimeOf(DefaultStart),
                            IF args.endDate.isStr THEN TimeOf(args.endDate.s)
                                                  ELSE TimeOf(DefaultEnd)))

\* with only a start date given, a meeting dated exactly at it was counted and
\* a meeting of 1899 was not
C15_Witness ==
    /\ Analyzed("frequency")
    /\ args.startDate = StrV(Date2024Feb01) /\ ~ args.endDate.isStr
    /\ Len(data.meetings) = 2
    /\ \E i \in DOMAIN data.meetings : data.meetings[i].v.date = TimeOf(Date2024Feb01)
    /\ \E i \in DOMAIN data.meetings : data.meetings[i].v.date < TimeOf(DefaultStart)
    /\ out.body.meetingCount = 1

\* the meetings the analysis was computed over
FilteredMeetings ==
    filterMeetings(data.meetings, parseDateRange(args.startDate, args.endDate, localTz))

Lists(meeting, name) == \E k \in DOMAIN meeting.participants : meeting.participants[k] = name

\* the participant names of the filtered meetings
ListedNames ==
    UNION { {FilteredMeetings[i].participants[k] : k \in DOMAIN FilteredMeetings[i].participants} :
              i \in DOMAIN FilteredMeetings }

\* entries of a result are in non-increasing count order, one per key
RankedOnce(entries) ==
    /\ \A i, j \in DOMAIN entries : i < j => entries[i].v >= entries[j].v
    /\ \A i, j \in DOMAIN entries : i # j => entries[i].id # entries[j].id

\* C16: the participants analysis has one entry per participant name of the
\* filtered meetings, its count the number of filtered meetings listing the
\* name, in non-increasing count order, and no entry for any other name.
C16_CountsMeetingsPerParticipant ==
    Analyzed("participants") =>
        LET entries == out.body.entries
        IN  /\ \A name \in ListedNames :
                  \E i \in DOMAIN entries :
                      /\ entries[i].id = name
                      /\ entries[i].v =
                            Cardinality({m \in DOMAIN FilteredMeetings :
                                            Lists(FilteredMeetings[m], name)})
            /\ \A i \in DOMAIN entries : entries[i].id \in ListedNames
            /\ RankedOnce(entries)

\* <<year, month>> of a time value, in UTC
UtcYearMonth(t) == CivilFromDays(t \div 1440)

RECURSIVE SumCounts(_)
SumCounts(entries) == IF entries = <<>> THEN 0 ELSE Head(entries).v + SumCounts(Tail(entries))

\* C17: the frequency analysis has one bucket per UTC year-month of a filtered
\* meeting, each counting the meetings of that month (so at least 1), the counts
\* add up to the number of filtered meetings, and the average is that number
\* divided by the number of buckets, 0 without meetings.
C17_FrequencyBuckets ==
    Analyzed("frequency") =>
        LET entries == out.body.entries
            average == out.body.average
            n == Len(FilteredMeetings)
            months == {UtcYearMonth(FilteredMeetings[k].date) : k \in DOMAIN FilteredMeetings}
        IN  /\ out.body.meetingCount = n
            /\ {entries[i].id : i \in DOMAIN entries} = months
            /\ Len(entries) = Cardinality(months)
            /\ \A i \in DOMAIN entries :
                  /\ entries[i].v >= 1
                  /\ entries[i].v =
                        Cardinality({k \in DOMAIN FilteredMeetings :
                                        UtcYearMonth(FilteredMeetings[k].date) = entries[i].id})
            /\ SumCounts(entries) = n
            /\ average[2] > 0
            /\ IF n = 0 THEN average[1] = 0
               ELSE average[1] * Cardinality(months) = n * average[2]

\* east of Greenwich, a meeting of 1 February 00:30 local time and one of
\* 15 January share the bucket 2024-01: count 2, average 2
C17_Witness ==
    /\ Analyzed("frequency")
    /\ localTz = 60
    /\ Len(FilteredMeetings) = 2
    /\ \E k \in DOMAIN RawRead.documents :
          RawRead.documents[k].v.created_at = StrV(Date2024Feb01Early)
    /\ out.body.entries = <<[id |-> <<2024, 1>>, v |-> 2]>>
    /\ out.body.average = <<2, 1>>

\* the tokens of a title that count as topics: lowercased, split on whitespace,
\* stripped to [a-z0-9_-], longer than 3 characters and no stopword
TopicTokens(title) ==
    LET rawWords == splitWhitespace(toLowerCase(title), <<>>, FALSE)
        stripped == [i \in DOMAIN rawWords |-> stripWord(rawWords[i])]
    IN  SelectSeq(stripped, LAMBDA w : Len(w) > 3 /\ w \notin TOPIC_STOP_WORDS)

\* occurrences of a token in the titles of the meetings
RECURSIVE Occurrences(_, _)
Occurrences(meetings, word) ==
    IF meetings = <<>> THEN 0
    ELSE Cardinality({i \in DOMAIN TopicTokens(Head(meetings).title) :
                         TopicTokens(Head(meetings).title)[i] = word})
         + Occurrences(Tail(meetings), word)

\* C18: the topics analysis has one entry per topic token of the filtered
\* titles, its count the number of occurrences of the token in all of them, in
\* non-increasing count order; no entry is 3 characters or shorter or a stopword.
C18_TopicsCountTokens ==
    Analyzed("topics") =>
        LET entries == out.body.entries
            tokens == UNION { {TopicTokens(FilteredMeetings[m].title)[i] :
                                  i \in DOMAIN TopicTokens(FilteredMeetings[m].title)} :
                              m \in DOMAIN FilteredMeetings }
        IN  /\ {entries[i].id : i \in DOMAIN entries} = tokens
            /\ \A i \in DOMAIN entries :
                  /\ entries[i].v = Occurrences(FilteredMeetings, entries[i].id)
                  /\ Len(entries[i].id) > 3
                  /\ entries[i].id \notin TOPIC_STOP_WORDS
            /\ RankedOnce(entries)

LeapYear(y) == (y % 4 = 0 /\ y % 100 # 0) \/ y % 400 = 0

DaysIn(y, m) ==
    CASE m = 2 -> IF LeapYear(y) THEN 29 ELSE 28
      [] m \in {4, 6, 9, 11} -> 30
      [] OTHER -> 31

\* s is YYYY-MM-DD and names a day of the calendar
IsCalendarDate(s) ==
    /\ Len(s) = 10
    /\ AllDigits(s, 1, 4) /\ s[5] = "-" /\ AllDigits(s, 6, 2) /\ s[8] = "-" /\ AllDigits(s, 9, 2)
    /\ Num(s, 6, 2) \in 1..12
    /\ Num(s, 9, 2) \in 1..DaysIn(Num(s, 1, 4), Num(s, 6, 2))

\* C19: an analysis run whose kind is none of participants, frequency, topics,
\* or whose supplied start or end date is no valid calendar date, ends in a
\* validation error and writes no analysis result.
C19_RejectsBadKindAndDates ==
    ( /\ pc = "done" /\ command = "analyze-meeting-patterns"
      /\ \/ args.patternType \notin PatternTypes
         \/ args.startDate.isStr /\ ~ IsCalendarDate(args.startDate.s)
         \/ args.endDate.isStr /\ ~ IsCalendarDate(args.endDate.s) ) =>
        /\ exit = "err1"
        /\ error \in {"pattern-type-required", "pattern-type", "date"}
        /\ computed = "none" /\ out = NoOut

----------------------------------------------------------------------------
(* get-meeting-details over caches whose record keys vary *)

RenameKey(map, from, to) ==
    [i \in DOMAIN map |-> IF map[i].id = from THEN [map[i] EXCEPT !.id = to] ELSE map[i]]

\* the raw data with the key `from` of its three maps spelled `to`
Rekeyed(raw, from, to) ==
    [ documents |-> RenameKey(raw.documents, from, to),
      transcripts |-> RenameKey(raw.transcripts, from, to),
      documentPanels |-> RenameKey(raw.documentPanels, from, to) ]

DetailsInputs ==
    [ files |-> {PlainFile(r) : r \in RunRaws}
                \cup {PlainFile(Rekeyed(r, "m1", "constructor")) : r \in RunRaws},
      nows |-> Nows,
      tzs |-> {0},
      commands |-> {"get-meeting-details"},
      json |-> BOOLEAN,
      panels |-> {TRUE},
      queries |-> {}, limits |-> {},
      ids |-> {"", "m1", "m2", "zz", "constructor"},
      kinds |-> {}, dates |-> {} ]

InitDetails == InitWith(DetailsInputs)

NextDetails == ParseArgs(DetailsInputs) \/ LoadCache \/ GetMeetingDetailsCmd

SpecDetails == InitDetails /\ [][NextDetails]_vars

\* C20: get-meeting-details for an id of the meetings map writes that Meeting,
\* the number of Documents whose meetingId is the id, and a transcript flag
\* that is true exactly when the transcripts map has an entry under the id.
C20_DetailsOfKnownMeeting ==
    ( /\ pc = "done" /\ command = "get-meeting-details"
      /\ HasOwn(data.meetings, args.meetingId) ) =>
        /\ exit = "ok" /\ out.kind = "details" /\ ~ out.notFound
        /\ out.body.meeting = Own(data.meetings, args.meetingId).v
        /\ out.body.documents =
              Cardinality({i \in DOMAIN data.documents :
                              data.documents[i].v.meetingId = args.meetingId})
        /\ out.body.transcriptAvailable <=>
              \E i \in DOMAIN data.transcripts : data.transcripts[i].id = args.meetingId

----------------------------------------------------------------------------
(* The three lookups by id over caches with and without Meetings *)

\* a record without title, people, timestamp, notes, overview and summary
BareRecord == RawMeeting(NonStr, <<>>, NonStr, NonStr, NonStr, NotANode, NonStr, NonStr)

LookupSamples ==
    { Sample(RawMeeting(StrV(Q1Planning), <<Person(StrV(Ada)), Person(StrV(Bo))>>,
                        StrV(Date2024Jan15), StrV(<<"A", "d", "a">>), NonStr, NotANode,
                        NonStr, NonStr),
             TranscriptAB),
      SampleNoTranscript(BareRecord),
      Sample(NonObject, TranscriptB),
      SampleNoTranscript(NonObject) }

LookupRaws == {RawOf(s, <<>>) : s \in SeqsUpTo(LookupSamples, MaxRecords)}

LookupInputs ==
    [ files |-> {PlainFile(r) : r \in LookupRaws}
                \cup {PlainFile(Rekeyed(r, "m1", "constructor")) : r \in LookupRaws},
      nows |-> Nows,
      tzs |-> {0},
      commands |-> {"get-meeting-details", "get-meeting-transcript", "get-meeting-documents"},
      json |-> BOOLEAN,
      panels |-> {TRUE},
      queries |-> {}, limits |-> {},
      ids |-> {"m1", "m2", "zz", "constructor"},
      kinds |-> {}, dates |-> {} ]

InitLookup == InitWith(LookupInputs)

NextLookup ==
    \/ ParseArgs(LookupInputs)
    \/ LoadCache
    \/ GetMeetingDetailsCmd
    \/ GetMeetingTranscriptCmd
    \/ GetMeetingDocumentsCmd

SpecLookup == InitLookup /\ [][NextLookup]_vars

\* C21: get-meeting-transcript for an id of the transcripts map writes the
\* stored Transcript as it is, under the title of the Meeting with that id
\* when there is one and under the id itself when there is none.
C21_TranscriptAsStored ==
    ( /\ pc = "done" /\ command = "get-meeting-transcript"
      /\ HasOwn(data.transcripts, args.meetingId) ) =>
        /\ exit = "ok" /\ out.kind = "transcript" /\ ~ out.notFound /\ ~ out.partial
        /\ out.body.transcript = Own(data.transcripts, args.meetingId).v
        /\ out.body.display.id = args.meetingId
        /\ IF \E i \in DOMAIN data.meetings : data.meetings[i].id = args.meetingId
           THEN /\ out.body.display.fromMeeting
                /\ \E i \in DOMAIN data.meetings :
                      /\ data.meetings[i].id = args.meetingId
                      /\ out.body.display.title = data.meetings[i].v.title
           ELSE ~ out.body.display.fromMeeting

\* a Transcript stored under an id without Meeting was written under its id,
\* in a cache that also holds a Meeting
C21_Witness ==
    /\ pc = "done" /\ command = "get-meeting-transcript" /\ exit = "ok"
    /\ HasOwn(data.transcripts, args.meetingId)
    /\ ~ HasOwn(data.meetings, args.meetingId)
    /\ Len(data.meetings) = 1
    /\ ~ out.body.display.fromMeeting
    /\ out.body.transcript.content = <<"b">>

----------------------------------------------------------------------------
(* Loading: which object of the file is read as raw data *)

\* the `cache` string holds an object that again has a `cache` string, holding raw
DoublyWrappedFile(raw) ==
    CacheFile(TRUE, "object", Decoy, "json",
              [ documents |-> <<>>, transcripts |-> <<>>, documentPanels |-> <<>>,
                cache |-> raw ],
              FALSE, Decoy)

LoadInputs ==
    [ files |-> {MissingFile}
                \cup {PlainFile(r) : r \in RunRaws}
                \cup {WrappedFile(r) : r \in RunRaws}
                \cup {WrappedStateFile(r) : r \in RunRaws}
                \cup {DoublyWrappedFile(r) : r \in RunRaws},
      nows |-> Nows,
      tzs |-> {0},
      commands |-> {"get-meeting-documents"},
      json |-> {TRUE},
      panels |-> BOOLEAN,
      queries |-> {}, limits |-> {},
      ids |-> {"m1", "m2"},
      kinds |-> {}, dates |-> {} ]

InitLoad == InitWith(LoadInputs)

NextLoad == ParseArgs(LoadInputs) \/ LoadCache \/ GetMeetingDocumentsCmd

SpecLoad == InitLoad /\ [][NextLoad]_vars

\* the object the claim names as raw data of an existing file
SelectedRaw ==
    IF file.cache = "json"
    THEN IF file.stateIsObj THEN file.state ELSE file.nested
    ELSE file.top

\* C22: the Cache of an existing file is built from the top-level object when
\* it has no string `cache` field, else from the `state` object of the parsed
\* `cache` string when there is one, else from the parsed `cache` string
\* itself; a `cache` string inside the parsed `cache` string is not opened.
C22_OneLevelUnwrapped ==
    (Built /\ file.exists) =>
        LET expected == parseCacheData(SelectedRaw, args.parsePanels, now, localTz)
        IN  /\ data = expected
            /\ "cache" \in DOMAIN SelectedRaw =>
                  /\ data.meetings = parseCacheData(EmptyRaw, args.parsePanels, now, localTz).meetings
                  /\ data.documents = <<>>

\* a file whose `cache` string carries the records under `state` was built
\* from them, not from the decoy next to them
C22_Witness ==
    /\ Built
    /\ file.cache = "json" /\ file.stateIsObj
    /\ file.nested = Decoy /\ file.top = Decoy
    /\ Len(data.meetings) = 2
    /\ data.meetings[1].v.title = Q1Planning

----------------------------------------------------------------------------
(* The Meetings built from records of varied titles and timestamps *)

MeetingRecords ==
    { RawMeeting(t, <<>>, c, StrV(PlainText), NonStr, NotANode, NonStr, NonStr) :
        t \in {NonStr, StrV(<<" ">>), StrV(<<"A", "b">>)},
        c \in {NonStr, StrV(<<" ">>), StrV(NotADate), StrV(Date2024Jan15),
               StrV(Date2024Feb01Early)} }
    \cup {NonObject}

MeetingInputs ==
    [ files |-> { PlainFile(RawOf(s, <<>>)) :
                    s \in SeqsUpTo({SampleNoTranscript(r) : r \in MeetingRecords}, MaxRecords) },
      nows |-> Nows,
      tzs |-> TzOffsets,
      commands |-> {"get-meeting-documents"},
      json |-> {TRUE},
      panels |-> {TRUE},
      queries |-> {}, limits |-> {},
      ids |-> {"m1"},
      kinds |-> {}, dates |-> {} ]

InitMeetings == InitWith(MeetingInputs)

NextMeetings == ParseArgs(MeetingInputs) \/ LoadCache \/ GetMeetingDocumentsCmd

SpecMeetings == InitMeetings /\ [][NextMeetings]_vars

\* C23: every raw record that is an object has its Meeting; the Meeting's date
\* is the instant its created_at names (a trailing Z read as +00:00) when that
\* is a non-blank string that parses, and the load time in every other case.
C23_DateParsedOrLoadTime ==
    Built =>
        /\ exit # "err1"
        /\ \A k \in DOMAIN RawRead.documents :
              LET rec == RawRead.documents[k].v
              IN  rec.isObj =>
                    \E i \in DOMAIN data.meetings :
                        /\ data.meetings[i].id = RawRead.documents[k].id
                        /\ data.meetings[i].v.date =
                              IF Dated(rec)
                              THEN NewDate(ReplaceTrailingZ(rec.created_at.s), localTz).t
                              ELSE now
                        /\ rec.created_at = StrV(Date2024Jan15) =>
                              data.meetings[i].v.date = 28421880
                        /\ rec.created_at = StrV(Date2024Feb01Early) =>
                              data.meetings[i].v.date = 28445790 - localTz

\* an unparsable timestamp next to a local one, an hour east of Greenwich:
\* both Meetings built, dated at load time and at 23:30 UTC of the day before
C23_Witness ==
    /\ Built /\ localTz = 60
    /\ Len(RawRead.documents) = 2
    /\ RawRead.documents[1].v.created_at = StrV(NotADate)
    /\ RawRead.documents[2].v.created_at = StrV(Date2024Feb01Early)
    /\ Len(data.meetings) = 2
    /\ data.meetings[1].v.date = now
    /\ data.meetings[2].v.date = 28445730

\* C24: the title of every Meeting holds a non-whitespace character: it is
\* the raw title when that is such a string and "Untitled Meeting" otherwise;
\* the title and createdAt of every Document are the title and date of the
\* Meeting with its id.
C24_TitlesAndMirrors ==
    Built =>
        /\ \A i \in DOMAIN data.meetings :
              LET rec == RawRecordOf(data.meetings[i].id)
                  title == data.meetings[i].v.title
              IN  /\ HasInk(title)
                  /\ title = IF InkField(rec.title) THEN rec.title.s
                             ELSE <<"U", "n", "t", "i", "t", "l", "e", "d", " ",
                                    "M", "e", "e", "t", "i", "n", "g">>
        /\ \A d \in DOMAIN data.documents :
              \E i \in DOMAIN data.meetings :
                  /\ data.meetings[i].id = data.documents[d].id
                  /\ data.documents[d].v.title = data.meetings[i].v.title
                  /\ data.documents[d].v.createdAt = data.meetings[i].v.date

\* a record with a blank title and one with a title, differently dated, each
\* with its Document
C24_Witness ==
    /\ Built
    /\ Len(RawRead.documents) = 2
    /\ RawRead.documents[1].v.title = StrV(<<" ">>)
    /\ RawRead.documents[2].v.title = StrV(<<"A", "b">>)
    /\ Len(data.documents) = 2
    /\ data.documents[1].v.title = UntitledMeeting
    /\ data.documents[2].v.title = <<"A", "b">>
    /\ data.documents[1].v.createdAt # data.documents[2].v.createdAt

----------------------------------------------------------------------------
(* The Transcripts built from raw segments and raw objects *)

MaxSegments == 3

SegmentSamples ==
    { Seg(StrV(<<"a">>), StrV(<<"A">>)),
      Seg(StrV(<<" ", "B", " ">>), StrV(<<" ", "A", " ">>)),
      Seg(StrV(<<" ">>), StrV(<<"C">>)),
      Seg(NonStr, NonStr),
      NotASeg }

TranscriptSamples ==
    {ArrayTranscript(segs) : segs \in SeqsUpTo(SegmentSamples, MaxSegments)}
    \cup { ObjectTranscript(c, t, r, <<StrV(Ada), StrV(<<" ">>), StrV(Ada)>>) :
             c \in {NonStr, StrV(<<" ">>), StrV(<<" ", "c", " ">>)},
             t \in {NonStr, StrV(<<"t">>)},
             r \in {NonStr, StrV(<<"r">>)} }

TranscriptInputs ==
    [ files |-> {PlainFile(RawOf(<<Sample(BareRecord, tr)>>, <<>>)) : tr \in TranscriptSamples},
      nows |-> Nows,
      tzs |-> {0},
      commands |-> {"get-meeting-transcript"},
      json |-> BOOLEAN,
      panels |-> {TRUE},
      queries |-> {}, limits |-> {},
      ids |-> {"m1"},
      kinds |-> {}, dates |-> {} ]

InitTranscripts == InitWith(TranscriptInputs)

NextTranscripts == ParseArgs(TranscriptInputs) \/ LoadCache \/ GetMeetingTranscriptCmd

SpecTranscripts == InitTranscripts /\ [][NextTranscripts]_vars

\* the raw transcript entry a Transcript was built from
RawTranscriptOf(id) ==
    RawRead.transcripts[CHOOSE k \in DOMAIN RawRead.transcripts :
                            RawRead.transcripts[k].id = id].v

\* the given field of the segments that are objects, where it is a string
\* accepted by keep, each changed by shape
SegmentValues(segs, field, keep(_), shape(_)) ==
    LET picked == SelectSeq(segs, LAMBDA seg : seg.isObj /\ seg[field].isStr /\ keep(seg[field].s))
    IN  [i \in DOMAIN picked |-> shape(picked[i][field].s)]

\* the elements of a sequence at their first appearance
FirstAppearances(seq) ==
    LET firsts == {i \in DOMAIN seq : \A j \in 1..(i - 1) : seq[j] # seq[i]}
        nth[k \in 0..Cardinality(firsts)] ==
            IF k = 0 THEN 0
            ELSE CHOOSE i \in firsts : i > nth[k - 1] /\ \A j \in firsts : j > nth[k - 1] => i <= j
    IN  [k \in 1..Cardinality(firsts) |-> seq[nth[k]]]

NotEmpty(str) == str # <<>>

AsIs(str) == str

\* C25 as stated: an array-form Transcript holds the non-empty segment texts
\* joined by single spaces and each non-empty source once, in order of first
\* appearance; an object-form Transcript holds the first non-empty string
\* among content, text, transcript.
C25_TranscriptForms ==
    Built =>
        \A i \in DOMAIN data.transcripts :
            LET raw == RawTranscriptOf(data.transcripts[i].id)
                built == data.transcripts[i].v
                fields == SelectSeq(<<raw.content, raw.text, raw.transcript>>,
                                    LAMBDA f : f.isStr /\ f.s # <<>>)
            IN  IF raw.form = "array"
                THEN /\ built.content = join(SegmentValues(raw.segs, "text", NotEmpty, AsIs), <<" ">>)
                     /\ built.speakers =
                           FirstAppearances(SegmentValues(raw.segs, "source", NotEmpty, AsIs))
                ELSE /\ fields # <<>>
                     /\ built.content = fields[1].s

\* C25 amended: an array-form Transcript holds the trimmed segment texts that
\* are not blank, joined by single spaces, and each trimmed source that is not
\* blank once, in order of first appearance; an object-form Transcript holds
\* the trimmed first string among content, text, transcript that is not blank.
C25_TranscriptFormsTrimmed ==
    Built =>
        \A i \in DOMAIN data.transcripts :
            LET raw == RawTranscriptOf(data.transcripts[i].id)
                built == data.transcripts[i].v
                fields == SelectSeq(<<raw.content, raw.text, raw.transcript>>, InkField)
            IN  IF raw.form = "array"
                THEN /\ built.content = join(SegmentValues(raw.segs, "text", HasInk, trim), <<" ">>)
                     /\ built.speakers =
                           FirstAppearances(SegmentValues(raw.segs, "source", HasInk, trim))
                ELSE /\ fields # <<>>
                     /\ built.content = trim(fields[1].s)

\* three segments, the second padded and by the speaker of the first
C25_Witness ==
    /\ Built
    /\ Len(data.transcripts) = 1
    /\ RawTranscriptOf("m1").form = "array"
    /\ Len(RawTranscriptOf("m1").segs) = 3
    /\ data.transcripts[1].v.content = <<"a", " ", "B">>
    /\ data.transcripts[1].v.speakers = <<<<"A">>, <<"C">>>>

----------------------------------------------------------------------------
(* Panel maps: the order in which panels and their leaves are read *)

\* in ascending order of UTF-16 code units
PanelKeys == << <<"B">>, <<"p", "1", "0">>, <<"p", "2">> >>

PanelShapes == {"leaf", "nested", "bare", "value"}

\* a panel under a key, its texts marked with the key
PanelOf(key, shape) ==
    CASE shape = "leaf" ->
            Node("panel", NonStr, "array", <<TextNode(key)>>)
      [] shape = "nested" ->
            Node("panel", NonStr, "array",
                 << Node("paragraph", NonStr, "array",
                         << TextNode(key \o <<"a">>),
                            Node("list", NonStr, "object", <<TextNode(<<" ">> \o key \o <<"b">>)>>) >>),
                    TextNode(<<" ">>),
                    TextNode(key \o <<"c">>) >>)
      [] shape = "bare" ->
            Node("text", StrV(key), "undef", <<>>)
      [] OTHER -> NotANode

\* the non-blank text leaves below the content of such a panel, trimmed, in
\* document order
LeavesOf(key, shape) ==
    CASE shape = "leaf" -> <<key>>
      [] shape = "nested" -> <<key \o <<"a">>, key \o <<"b">>, key \o <<"c">>>>
      [] OTHER -> <<>>

\* raw panel maps: every order of every choice of keys, a shape under each
PanelMapSamples ==
    { [kind |-> "map", items |-> [i \in DOMAIN order |-> [id |-> PanelKeys[order[i]],
                                                            v |-> PanelOf(PanelKeys[order[i]], shapes[order[i]])]]] :
        order \in {q \in SeqsUpTo(DOMAIN PanelKeys, Len(PanelKeys)) :
                       \A i, j \in DOMAIN q : i # j => q[i] # q[j]},
        shapes \in [DOMAIN PanelKeys -> PanelShapes] }

PanelInputs ==
    [ files |-> { PlainFile(RawOf(<<SampleNoTranscript(BareRecord)>>, <<[id |-> "m1", v |-> panelData]>>)) :
                    panelData \in PanelMapSamples },
      nows |-> Nows,
      tzs |-> {0},
      commands |-> {"get-meeting-documents"},
      json |-> {TRUE},
      panels |-> BOOLEAN,
      queries |-> {}, limits |-> {},
      ids |-> {"m1"},
      kinds |-> {}, dates |-> {} ]

InitPanels == InitWith(PanelInputs)

NextPanels == ParseArgs(PanelInputs) \/ LoadCache \/ GetMeetingDocumentsCmd

SpecPanels == InitPanels /\ [][NextPanels]_vars

\* the raw panel map of a meeting
RawPanelsOf(id) == panelsFor(RawRead.documentPanels, id)

\* the leaves of the panel under the k-th key, none when the map lacks the key
LeavesUnder(panelData, k) ==
    IF \E i \in DOMAIN panelData.items : panelData.items[i].id = PanelKeys[k]
    THEN LET panel == panelData.items[CHOOSE i \in DOMAIN panelData.items :
                                          panelData.items[i].id = PanelKeys[k]].v
         IN  LeavesOf(PanelKeys[k],
                      CHOOSE shape \in PanelShapes : PanelOf(PanelKeys[k], shape) = panel)
    ELSE <<>>

\* C26: the text extracted from a panel map is the non-blank text leaves of
\* its panels, panel after panel in ascending key order whatever the order of
\* the raw map, depth-first in document order within a panel, joined by blank
\* lines.
C26_PanelsInKeyOrder ==
    (Built /\ args.parsePanels) =>
        \A d \in DOMAIN data.documents :
            LET panelData == RawPanelsOf(data.documents[d].id)
            IN  data.documents[d].v.content =
                    join(LeavesUnder(panelData, 1) \o LeavesUnder(panelData, 2)
                            \o LeavesUnder(panelData, 3), Para)

\* a raw map listing p2, p10, B in that order, p10 with nested content
C26_Witness ==
    /\ Built /\ args.parsePanels
    /\ Len(data.documents) = 1
    /\ LET items == RawPanelsOf("m1").items
       IN  /\ Len(items) = 3
           /\ items[1].id = <<"p", "2">> /\ items[1].v = PanelOf(<<"p", "2">>, "leaf")
           /\ items[2].id = <<"p", "1", "0">> /\ items[2].v = PanelOf(<<"p", "1", "0">>, "nested")
           /\ items[3].id = <<"B">> /\ items[3].v = PanelOf(<<"B">>, "leaf")
    /\ data.documents[1].v.content =
           <<"B">> \o Para \o <<"p", "1", "0", "a">> \o Para \o <<"p", "1", "0", "b">>
               \o Para \o <<"p", "1", "0", "c">> \o Para \o <<"p", "2">>

----------------------------------------------------------------------------
(* The Overview and Summary parts of a Document *)

EndsWith(str, suffix) ==
    /\ Len(suffix) <= Len(str)
    /\ SubSeq(str, Len(str) - Len(suffix) + 1, Len(str)) = suffix

\* the content built from the same raw file under the other panel setting
ContentUnderOtherSetting(id) ==
    LET documents == parseCacheData(RawRead, ~ args.parsePanels, now, localTz).documents
    IN  documents[CHOOSE k \in DOMAIN documents : documents[k].id = id].v.content

\* C27: a Document's content ends with "Overview: <overview>" when the raw
\* overview is a non-blank string and "Summary: <summary>" when the raw
\* summary is one, Overview before Summary, after the notes body and
\* separated from it and from each other by blank lines, whichever source
\* gave the body and whatever the panel setting; a blank or missing field
\* adds no part.
C27_OverviewThenSummary ==
    Built =>
        \A d \in DOMAIN data.documents :
            LET rec == RawRecordOf(data.documents[d].id)
                content == data.documents[d].v.content
                overview == IF InkField(rec.overview)
                            THEN <<OverviewLabel \o rec.overview.s>> ELSE <<>>
                summary == IF InkField(rec.summary)
                           THEN <<SummaryLabel \o rec.summary.s>> ELSE <<>>
                ending == join(overview \o summary, Para)
                body == SubSeq(content, 1, Len(content) - Len(ending))
            IN  /\ EndsWith(content, ending)
                /\ EndsWith(ContentUnderOtherSetting(data.documents[d].id), ending)
                /\ (ending # <<>> /\ body # <<>>) => EndsWith(body, Para)
                /\ includes(content, OverviewLabel) <=> InkField(rec.overview)
                /\ includes(content, SummaryLabel) <=> InkField(rec.summary)
                /\ ~ includes(body, OverviewLabel) /\ ~ includes(body, SummaryLabel)

\* markdown notes as the body, then both parts
C27_Witness ==
    /\ Built
    /\ Len(data.documents) = 1
    /\ ~ InkField(RawRecordOf("m1").notes_plain)
    /\ data.documents[1].v.content =
           MarkdownText \o Para \o OverviewLabel \o OverviewText
               \o Para \o SummaryLabel \o SummaryText

----------------------------------------------------------------------------
(* One pass: load and build, one query, exit *)

\* two short records, the first with a transcript of one segment
PassSamples ==
    << Sample(RawMeeting(StrV(<<"a", "D">>), <<Person(StrV(Ada))>>, NonStr, NonStr, NonStr,
                         NotANode, NonStr, NonStr),
              ArrayTranscript(<<Seg(StrV(<<"a">>), StrV(<<"A">>))>>)),
       SampleNoTranscript(RawMeeting(StrV(<<"b">>), <<>>, StrV(Date2024Jan15), NonStr, NonStr,
                                     NotANode, NonStr, NonStr)) >>

PassInputs ==
    [ files |-> { MissingFile, BadOuterFile, BadInnerFile,
                  PlainFile(RawOf(<<>>, <<>>)),
                  PlainFile(RawOf(<<PassSamples[1]>>, <<>>)),
                  WrappedFile(RawOf(PassSamples, <<>>)) },
      nows |-> Nows,
      tzs |-> {0},
      commands |-> Commands \cup {"export"},
      json |-> BOOLEAN,
      panels |-> {TRUE},
      queries |-> {NonStr, StrV(<<"a", "D">>)},
      limits |-> {NonStr, StrV(<<"0">>)},
      ids |-> {"", "m1", "zz"},
      kinds |-> {"", "topics", "people"},
      dates |-> {NonStr, StrV(NotADate)} ]

InitPass == InitWith(PassInputs)

NextPass ==
    \/ Help
    \/ ArgvError
    \/ ParseArgs(PassInputs)
    \/ LoadCache
    \/ SearchMeetingsCmd
    \/ GetMeetingDetailsCmd
    \/ GetMeetingTranscriptCmd
    \/ GetMeetingDocumentsCmd
    \/ AnalyzeMeetingPatternsCmd
    \/ UnknownCommand

\* main runs to its return, a throw or process.exit without waiting on anything
FairSpec == InitPass /\ [][NextPass]_vars /\ WF_vars(NextPass)

\* loadCache returns: the file is missing (an empty Cache) or holds JSON at
\* both levels
Readable(f) == ~ Malformed(f)

\* the order of the steps: every step moves the run forward, the Cache is
\* built only by the load step and only when the load succeeds, and a query
\* is computed or written only by the step after the build, which ends the run
OnePass ==
    [][ /\ pc # "done"
        /\ (pc = "start" => pc' \in {"load", "done"})
        /\ (pc = "load" => pc' \in {"dispatch", "done"})
        /\ (pc = "dispatch" => pc' = "done")
        /\ (data' # data => pc = "load" /\ pc' = "dispatch" /\ Readable(file))
        /\ (pc' = "dispatch" => pc = "load" /\ data' # data /\ Readable(file))
        /\ ((computed' # computed \/ out' # out) => pc = "dispatch" /\ pc' = "done")
      ]_vars

Terminates == <>(pc = "done")

QueryResult == exit = "ok" /\ out.kind # "none" /\ ~ out.notFound

NotFoundResult == exit = "ok" /\ out.notFound

ErrorExit == exit \in {"err1", "usage2"}

\* usage(0): the usage text, exit status 0, nothing loaded and nothing answered
HelpExit == exit = "usage0" /\ argv = "help" /\ out = NoOut /\ computed = "none"

\* C28 as stated: a run loads the cache at most once, builds the model at most
\* once and only after a successful load, answers at most one query and only
\* after the build, then terminates; every run terminates, with a query
\* result, a not-found result or an error exit.
C28_SinglePass ==
    /\ OnePass
    /\ Terminates
    /\ [](pc = "done" => (QueryResult \/ NotFoundResult \/ ErrorExit))

\* C28 amended: the same order of steps; every run terminates, with a query
\* result, a not-found result, an error exit, or, for a help request or an
\* empty command line, with the usage text and exit status 0.
C28_SinglePassOrHelp ==
    /\ OnePass
    /\ Terminates
    /\ [](pc = "done" => (QueryResult \/ NotFoundResult \/ ErrorExit \/ HelpExit))

\* a run that read a wrapped file, built two meetings and answered a search
C28_Witness ==
    /\ pc = "done" /\ exit = "ok"
    /\ file.cache = "json"
    /\ Len(data.meetings) = 2
    /\ computed = "search" /\ out.kind = "search"

----------------------------------------------------------------------------
(* One Document per Meeting *)

KeysOf(map) == {map[i].id : i \in DOMAIN map}

\* the Documents of the Cache that name the given meeting
DocumentsNaming(id) == {d \in DOMAIN data.documents : data.documents[d].v.meetingId = id}

\* C29: the documents map of a built Cache has the keys of its meetings map,
\* one Document per Meeting, also for a record without notes, overview,
\* summary and panels; get-meeting-details reports one document for a meeting
\* of the Cache and get-meeting-documents finds it.
C29_OneDocumentPerMeeting ==
    /\ Built =>
          /\ KeysOf(data.documents) = KeysOf(data.meetings)
          /\ Len(data.documents) = Len(data.meetings)
          /\ \A id \in KeysOf(data.meetings) :
                /\ Cardinality(DocumentsNaming(id)) = 1
                /\ \A d \in DocumentsNaming(id) : data.documents[d].id = id
    /\ ( /\ pc = "done" /\ command = "get-meeting-details"
         /\ HasOwn(data.meetings, args.meetingId) ) =>
            /\ exit = "ok" /\ out.kind = "details" /\ ~ out.notFound
            /\ out.body.documents = 1
    /\ ( /\ pc = "done" /\ command = "get-meeting-documents"
         /\ HasOwn(data.meetings, args.meetingId) ) =>
            /\ exit = "ok" /\ out.kind = "documents" /\ ~ out.notFound
            /\ Len(out.body.documents) = 1

\* the documents of a meeting built from a bare record: one, without content
C29_Witness ==
    /\ pc = "done" /\ command = "get-meeting-documents"
    /\ HasOwn(data.meetings, args.meetingId)
    /\ RawRecordOf(args.meetingId) = BareRecord
    /\ Len(data.meetings) = 2
    /\ ~ out.notFound
    /\ Len(out.body.documents) = 1
    /\ out.body.documents[1].content = <<>>

----------------------------------------------------------------------------
(* The cache is read before the command is looked at *)

\* the errors of a command's own arguments
ArgumentErrors == ValidationErrors \cup {"query-required", "meeting-id-required"}

\* C30: a command's arguments are validated and an unknown command is
\* answered with the usage text only by a step that follows the load and
\* build of the cache; with a malformed cache file the load step ends the
\* run on the parse error, whatever the command and its arguments are.
C30_LoadBeforeValidation ==
    [][ /\ (error' \in ArgumentErrors \/ exit' = "usage2") =>
              /\ pc = "dispatch"
              /\ ~ Malformed(file)
              /\ data.lastUpdated = now
        /\ (pc = "load" /\ Malformed(file)) =>
              /\ pc' = "done"
              /\ exit' = "err1" /\ error' = "parse"
              /\ data' = data /\ out' = out
      ]_vars

\* a run of an unknown command over a file that is no JSON died on the parse error
C30_Witness ==
    /\ pc = "done"
    /\ file = BadOuterFile
    /\ command \notin Commands
    /\ argv = "ok"
    /\ exit = "err1" /\ error = "parse"

====
